---------------------------- MODULE Spec2Model ----------------------------
(***************************************************************************)
(* A model of the dogstatsd-utils readers and message parser.              *)
(*                                                                         *)
(* Byte streams, payloads and text lines are sequences of bytes (0..255).  *)
(* Every function of the repository is an operator over such sequences    *)
(* and over records that hold the fields of the Rust structs; the actions  *)
(* of each specification apply these operators to one reader or one line.  *)
(***************************************************************************)
EXTENDS Integers, Sequences, FiniteSets, TLC

VARIABLES
    input,   \* the byte stream (or text line) under test, fixed by Init
    rd,      \* the reader (or the value under construction)
    s,       \* the caller's target String
    hist,    \* one entry per completed call, in call order
    aux      \* specification-specific bookkeeping of the caller

vars == <<input, rd, s, hist, aux>>

---------------------------------------------------------------------------
(* Bounds of the model *)

\* number of read_msg calls a behaviour makes
MaxCalls == 6

---------------------------------------------------------------------------
(* Sequences of bytes *)

Take(q, n) == SubSeq(q, 1, IF n < Len(q) THEN n ELSE Len(q))

Drop(q, n) == SubSeq(q, n + 1, Len(q))

RECURSIVE Concat(_)
Concat(qs) == IF qs = <<>> THEN <<>> ELSE Head(qs) \o Concat(Tail(qs))

Last(q) == q[Len(q)]

\* byteorder::LittleEndian::read_u32 / Buf::get_u32_le
LE32(b) == b[1] + 256 * b[2] + 65536 * b[3] + 16777216 * b[4]

\* u32::to_le_bytes, used to build inputs
ToLE32(n) == << n % 256, (n \div 256) % 256, (n \div 65536) % 256, (n \div 16777216) % 256 >>

RECURSIVE XorBits(_, _, _)
XorBits(a, b, k) ==
    IF k = 0 THEN 0
    ELSE (IF (a % 2) # (b % 2) THEN 1 ELSE 0) + 2 * XorBits(a \div 2, b \div 2, k - 1)

\* u8 ^ u8
Xor8(a, b) == XorBits(a, b, 8)

---------------------------------------------------------------------------
(* std: str *)

\* std::str::from_utf8 succeeds: one- to four-byte sequences, each lead byte
\* followed by the continuation bytes it announces.
RECURSIVE IsUtf8(_)
IsUtf8(b) ==
    IF b = <<>> THEN TRUE
    ELSE LET n == IF b[1] < 128 THEN 1
                  ELSE IF b[1] \in 194..223 THEN 2
                  ELSE IF b[1] \in 224..239 THEN 3
                  ELSE IF b[1] \in 240..244 THEN 4
                  ELSE 0
         IN  /\ n > 0
             /\ Len(b) >= n
             /\ \A k \in 2..n : b[k] \in 128..191
             /\ IsUtf8(Drop(b, n))

\* str::is_char_boundary(i), i counted in bytes from 0
IsCharBoundary(b, i) ==
    \/ i = 0
    \/ i = Len(b)
    \/ (i < Len(b) /\ b[i + 1] \notin 128..191)

\* The ASCII White_Space characters; the alphabets of the model hold no
\* other white space.
IsWhitespace(c) == c \in {9, 10, 11, 12, 13, 32}

\* str::trim_end
RECURSIVE TrimEnd(_)
TrimEnd(b) ==
    IF b # <<>> /\ IsWhitespace(b[Len(b)]) THEN TrimEnd(SubSeq(b, 1, Len(b) - 1)) ELSE b

\* str::trim_start
RECURSIVE TrimStart(_)
TrimStart(b) == IF b # <<>> /\ IsWhitespace(b[1]) THEN TrimStart(Tail(b)) ELSE b

\* Index of the first c in b, 0 when there is none (str::find)
RECURSIVE FindFrom(_, _, _)
FindFrom(b, c, i) ==
    IF i > Len(b) THEN 0 ELSE IF b[i] = c THEN i ELSE FindFrom(b, c, i + 1)

Find(b, c) == FindFrom(b, c, 1)

\* str::split(c): the pieces between the occurrences of c, empty ones kept
RECURSIVE Split(_, _)
Split(b, c) ==
    LET i == Find(b, c) IN
    IF i = 0 THEN <<b>> ELSE <<SubSeq(b, 1, i - 1)>> \o Split(Drop(b, i), c)

\* str::lines: the pieces that end at each LF and the rest after the last
\* one if it is not empty; the LF, and a CR right before it, are taken off.
RECURSIVE Lines(_)
Lines(b) ==
    IF b = <<>> THEN <<>>
    ELSE LET i == Find(b, 10) IN
         IF i = 0 THEN <<b>>
         ELSE LET line == SubSeq(b, 1, i - 1) IN
              << IF line # <<>> /\ Last(line) = 13 THEN SubSeq(line, 1, Len(line) - 1) ELSE line >>
              \o Lines(Drop(b, i))

\* String::insert_str(0, line)
InsertFront(str, line) == line \o str

---------------------------------------------------------------------------
(* prost: the proto3 wire format of UnixDogstatsdMsg                        *)

\* A varint at the head of b: [ok, val, n] with n the bytes it takes.
RECURSIVE Varint(_, _)
Varint(b, depth) ==
    IF b = <<>> \/ depth > 10 THEN [ok |-> FALSE, val |-> 0, n |-> 0]
    ELSE IF b[1] < 128 THEN [ok |-> TRUE, val |-> b[1], n |-> 1]
    ELSE LET r == Varint(Tail(b), depth + 1)
         IN  [ok |-> r.ok, val |-> (b[1] - 128) + 128 * r.val, n |-> r.n + 1]

DefaultMsg == [ok |-> TRUE, timestamp |-> 0, payload |-> <<>>]

DecodeError == [ok |-> FALSE, timestamp |-> 0, payload |-> <<>>]

\* UnixDogstatsdMsg::decode: fields 1 (timestamp, varint), 3 (payload,
\* length-delimited); the fields 2, 4, 6 (varint) and 5 (bytes) are read and
\* dropped, as are unknown fields; a wrong wire type, field number 0 or a
\* truncated field is a DecodeError.
RECURSIVE Decode(_, _)
Decode(b, msg) ==
    IF b = <<>> THEN msg
    ELSE LET key == Varint(b, 1) IN
         IF ~key.ok THEN DecodeError
         ELSE LET fieldno == key.val \div 8
                  wt      == key.val % 8
                  rest    == Drop(b, key.n)
              IN
              IF fieldno = 0 THEN DecodeError
              ELSE IF wt = 0 THEN
                   LET v == Varint(rest, 1) IN
                   IF ~v.ok \/ fieldno \in {3, 5} THEN DecodeError
                   ELSE Decode(Drop(rest, v.n),
                               IF fieldno = 1 THEN [msg EXCEPT !.timestamp = v.val] ELSE msg)
              ELSE IF wt = 2 THEN
                   LET l == Varint(rest, 1) IN
                   IF ~l.ok \/ fieldno \in {1, 2, 4, 6} \/ Len(rest) - l.n < l.val THEN DecodeError
                   ELSE Decode(Drop(rest, l.n + l.val),
                               IF fieldno = 3
                               THEN [msg EXCEPT !.payload = SubSeq(rest, l.n + 1, l.n + l.val)]
                               ELSE msg)
              ELSE IF wt = 1 THEN
                   IF fieldno \in 1..6 \/ Len(rest) < 8 THEN DecodeError
                   ELSE Decode(Drop(rest, 8), msg)
              ELSE IF wt = 5 THEN
                   IF fieldno \in 1..6 \/ Len(rest) < 4 THEN DecodeError
                   ELSE Decode(Drop(rest, 4), msg)
              ELSE DecodeError

\* The encoding of a message with the given timestamp (< 128) and payload
\* (shorter than 128 bytes), used to build inputs: proto3 leaves out fields
\* that hold their default.
EncodeMsg(ts, payload) ==
    (IF ts = 0 THEN <<>> ELSE <<8, ts>>)
    \o (IF payload = <<>> THEN <<>> ELSE <<16, Len(payload), 26, Len(payload)>> \o payload)

\* One length-prefixed record of a replay file.
Record(body) == ToLE32(Len(body)) \o body

---------------------------------------------------------------------------
(* replay.rs *)

DATADOG_HEADER == <<212, 116, 208, 96>>

\* is_replay that takes any version byte for a supported one
is_replay_anyversion(header) ==
    IF SubSeq(header, 1, 4) # DATADOG_HEADER THEN "NotAReplayFile" ELSE "ok"

\* is_replay: "ok", "NotAReplayFile" or "UnsupportedReplayVersion"; the
\* header is the function's own copy, which it advances by 8 in every case.
is_replay(header) ==
    LET first_four == SubSeq(header, 1, 4)
        version    == Xor8(header[5], 240)
    IN  IF first_four # DATADOG_HEADER THEN "NotAReplayFile"
        ELSE IF version # 3 THEN "UnsupportedReplayVersion"
        ELSE "ok"

\* Read::read_exact on the reader at position pos (bytes consumed so far):
\* n bytes, or UnexpectedEof with the rest of the stream consumed.
read_exact(stream, pos, n) ==
    IF Len(stream) - pos < n
    THEN [ok |-> FALSE, bytes |-> <<>>, pos |-> Len(stream)]
    ELSE [ok |-> TRUE, bytes |-> SubSeq(stream, pos + 1, pos + n), pos |-> pos + n]

\* ReplayReader::new: reads the 8 header bytes, then is_replay.
ReplayReader_new(stream) ==
    LET h == read_exact(stream, 0, 8) IN
    IF ~h.ok THEN [ok |-> FALSE, err |-> "Io"]
    ELSE IF is_replay(h.bytes) # "ok" THEN [ok |-> FALSE, err |-> is_replay(h.bytes)]
    ELSE [ok |-> TRUE, pos |-> 8, read_all_unixdogstatsdmsg |-> FALSE]

\* The zero length: the separator between the messages and the tagger state.
ReadSentinel_noflag(r, pos) == [r EXCEPT !.pos = pos]

ReadSentinel(r, pos) == [r EXCEPT !.pos = pos, !.read_all_unixdogstatsdmsg = TRUE]

\* ReplayReader::read_msg on reader r over stream: the reader after the call
\* and the result: "None", "Some" (with msg), or an error ("Io", "ProtoDecode").
ReplayReader_read_msg(stream, r) ==
    IF r.read_all_unixdogstatsdmsg THEN [r |-> r, res |-> "None", msg |-> DefaultMsg]
    ELSE LET lenbuf == read_exact(stream, r.pos, 4) IN
         IF ~lenbuf.ok
         THEN [r |-> [r EXCEPT !.pos = lenbuf.pos], res |-> "Io", msg |-> DefaultMsg]
         ELSE LET message_length == LE32(lenbuf.bytes) IN
              IF message_length = 0
              THEN [r |-> ReadSentinel(r, lenbuf.pos), res |-> "None", msg |-> DefaultMsg]
              ELSE LET body == read_exact(stream, lenbuf.pos, message_length) IN
                   IF ~body.ok
                   THEN [r |-> [r EXCEPT !.pos = body.pos], res |-> "Io", msg |-> DefaultMsg]
                   ELSE LET m == Decode(body.bytes, DefaultMsg) IN
                        [r |-> [r EXCEPT !.pos = body.pos],
                         res |-> IF m.ok THEN "Some" ELSE "ProtoDecode",
                         msg |-> m]

---------------------------------------------------------------------------
(* dogstatsdreplayreader.rs *)

\* DogStatsDReplayReader::new: eats the 8 header bytes.  buf holds the
\* bytes not yet read.
DogStatsDReplayReader_new(bytes) ==
    [buf |-> Drop(bytes, 8), current_messages |-> <<>>]

\* The lines of one payload, queued behind what is pending.
QueueLines_reversed(q, v) ==
    LET l == Lines(v) IN q \o [i \in 1..Len(l) |-> l[Len(l) + 1 - i]]

QueueLines(q, v) == q \o Lines(v)

\* DogStatsDReplayReader::read_msg(&mut s): the reader and the string after
\* the call, and the result: "Ok" with n = 0 or 1, "Err" (the record does
\* not decode) or "Panic" (the payload is not UTF-8).
DogStatsDReplayReader_read_msg(r, str) ==
    IF r.current_messages # <<>>
    THEN [r |-> [r EXCEPT !.current_messages = Tail(r.current_messages)],
          s |-> InsertFront(str, Head(r.current_messages)), res |-> "Ok", n |-> 1]
    ELSE IF Len(r.buf) < 4 THEN [r |-> r, s |-> str, res |-> "Ok", n |-> 0]
    ELSE LET message_length == LE32(r.buf)
             after_len      == Drop(r.buf, 4)
         IN
         IF Len(after_len) < message_length
         THEN [r |-> [r EXCEPT !.buf = after_len], s |-> str, res |-> "Ok", n |-> 0]
         ELSE LET msg_buf == Take(after_len, message_length)
                  r1      == [r EXCEPT !.buf = Drop(after_len, message_length)]
                  message == Decode(msg_buf, DefaultMsg)
              IN
              IF ~message.ok THEN [r |-> r1, s |-> str, res |-> "Err", n |-> 0]
              ELSE IF ~IsUtf8(message.payload) THEN [r |-> r1, s |-> str, res |-> "Panic", n |-> 0]
              ELSE IF Len(message.payload) = 0 THEN [r |-> r1, s |-> str, res |-> "Ok", n |-> 0]
              ELSE LET q == QueueLines(<<>>, message.payload) IN
                   [r |-> [r1 EXCEPT !.current_messages = Tail(q)],
                    s |-> InsertFront(str, Head(q)), res |-> "Ok", n |-> 1]

---------------------------------------------------------------------------
(* pcap_file: the classic libpcap container *)

Zeros(n) == [i \in 1..n |-> 0]

\* u32::from_be_bytes
BE32(b) == b[4] + 256 * b[3] + 65536 * b[2] + 16777216 * b[1]

ToBE32(n) == << (n \div 16777216) % 256, (n \div 65536) % 256, (n \div 256) % 256, n % 256 >>

\* u16::from_be_bytes at bytes i, i + 1 (counted from 1)
BE16At(b, i) == 256 * b[i] + b[i + 1]

PCAP_HEADER == <<161, 178, 195, 212>>

PCAP_HEADER_SWAPPED == <<212, 195, 178, 161>>

\* the nanosecond-resolution magic numbers pcap_file also accepts
PCAP_NS_HEADER == <<161, 178, 60, 77>>

PCAP_NS_HEADER_SWAPPED == <<77, 60, 178, 161>>

DATALINK_ETHERNET == 1

DATALINK_LINUX_SLL2 == 276

\* pcap_file::pcap::PcapReader::new: the 24-byte file header.
PcapFile_new(stream) ==
    IF Len(stream) < 24 THEN [ok |-> FALSE]
    ELSE LET magic == SubSeq(stream, 1, 4) IN
         IF magic \notin {PCAP_HEADER, PCAP_HEADER_SWAPPED, PCAP_NS_HEADER, PCAP_NS_HEADER_SWAPPED}
         THEN [ok |-> FALSE]
         ELSE LET big == magic \in {PCAP_HEADER, PCAP_NS_HEADER}
                  dl  == SubSeq(stream, 21, 24)
              IN  [ok |-> TRUE, big |-> big, pos |-> 24,
                   datalink |-> IF big THEN BE32(dl) ELSE LE32(dl)]

\* pcap_file::pcap::PcapReader::next_packet: None at the end of the stream,
\* an error when the 16-byte record header or the captured bytes are cut.
PcapFile_next_packet(stream, r) ==
    IF r.pos >= Len(stream) THEN [r |-> r, res |-> "None", data |-> <<>>]
    ELSE IF Len(stream) - r.pos < 16 THEN [r |-> r, res |-> "Err", data |-> <<>>]
    ELSE LET lenb     == SubSeq(stream, r.pos + 9, r.pos + 12)
             incl_len == IF r.big THEN BE32(lenb) ELSE LE32(lenb)
         IN  IF Len(stream) - r.pos - 16 < incl_len THEN [r |-> r, res |-> "Err", data |-> <<>>]
             ELSE [r |-> [r EXCEPT !.pos = r.pos + 16 + incl_len], res |-> "Some",
                   data |-> SubSeq(stream, r.pos + 17, r.pos + 16 + incl_len)]

---------------------------------------------------------------------------
(* pcapreader.rs *)

\* is_pcap
is_pcap(header) ==
    LET first_four == SubSeq(header, 1, 4) IN
    IF first_four # PCAP_HEADER /\ first_four # PCAP_HEADER_SWAPPED THEN "BadHeader" ELSE "ok"

\* PcapReader::new
PcapReader_new(stream) ==
    LET reader == PcapFile_new(stream) IN
    IF ~reader.ok THEN [ok |-> FALSE, err |-> "Pcap"]
    ELSE IF reader.datalink \notin {DATALINK_ETHERNET, DATALINK_LINUX_SLL2}
    THEN [ok |-> FALSE, err |-> "UnsupportedDatalinkType"]
    ELSE reader

\* PcapReader::read_packet
PcapReader_read_packet(stream, r) == PcapFile_next_packet(stream, r)

ETHERTYPE_IPV4 == 2048

IPPROTO_UDP == 17

IPPROTO_TCP == 6

\* pnet Ipv4Packet::payload: from the end of the header (ihl words), as many
\* bytes as total_length leaves, within the packet.
Ipv4Payload(ip) ==
    LET hl    == (ip[1] % 16) * 4
        total == BE16At(ip, 3)
        plen  == IF total > hl THEN total - hl ELSE 0
        start == IF hl < Len(ip) THEN hl ELSE Len(ip)
    IN  Take(Drop(ip, start), plen)

\* get_udp_payload_from_ipv4, given the bytes of an Ipv4Packet (20 or more)
get_udp_payload_from_ipv4(ip) ==
    IF ip[10] = IPPROTO_UDP
    THEN LET udp == Ipv4Payload(ip) IN
         IF Len(udp) < 8 THEN [res |-> "None", bytes |-> <<>>]
         ELSE [res |-> "Some", bytes |-> Drop(udp, 8)]
    ELSE [res |-> "None", bytes |-> <<>>]

\* get_udp_payload_from_packet(packet, header): Ok(Some(bytes)), Ok(None), or
\* a panic (expect on a header that does not parse, todo!(), unreachable!()).
get_udp_payload_from_packet(data, datalink) ==
    IF datalink = DATALINK_ETHERNET THEN
        IF Len(data) < 14 THEN [res |-> "Panic", bytes |-> <<>>]
        ELSE IF BE16At(data, 13) = ETHERTYPE_IPV4 THEN
            IF Len(data) - 14 < 20 THEN [res |-> "Panic", bytes |-> <<>>]
            ELSE get_udp_payload_from_ipv4(Drop(data, 14))
        ELSE [res |-> "Panic", bytes |-> <<>>]
    ELSE IF datalink = DATALINK_LINUX_SLL2 THEN
        IF Len(data) < 20 THEN [res |-> "Panic", bytes |-> <<>>]
        ELSE IF BE16At(data, 1) = ETHERTYPE_IPV4 THEN
            IF Len(data) - 20 < 20 THEN [res |-> "Panic", bytes |-> <<>>]
            ELSE get_udp_payload_from_ipv4(Drop(data, 20))
        ELSE [res |-> "Some", bytes |-> data]
    ELSE [res |-> "Panic", bytes |-> <<>>]

---------------------------------------------------------------------------
(* pcapdogstatsdreader.rs *)

\* etherparse::SlicedPacket::from_ethernet on a frame that carries IPv4 or a
\* protocol etherparse does not descend into: the bytes after the innermost
\* header it parsed, or an error when a header is cut or inconsistent.
from_ethernet(data) ==
    IF Len(data) < 14 THEN [ok |-> FALSE, payload |-> <<>>]
    ELSE IF BE16At(data, 13) # ETHERTYPE_IPV4 THEN [ok |-> TRUE, payload |-> Drop(data, 14)]
    ELSE LET ip == Drop(data, 14) IN
         IF Len(ip) < 20 THEN [ok |-> FALSE, payload |-> <<>>]
         ELSE LET hl    == (ip[1] % 16) * 4
                  total == BE16At(ip, 3)
              IN
              IF ip[1] \div 16 # 4 \/ hl < 20 \/ Len(ip) < hl \/ total < hl \/ Len(ip) < total
              THEN [ok |-> FALSE, payload |-> <<>>]
              ELSE LET l4 == SubSeq(ip, hl + 1, total) IN
                   IF ip[10] = IPPROTO_UDP THEN
                       IF Len(l4) < 8 THEN [ok |-> FALSE, payload |-> <<>>]
                       ELSE [ok |-> TRUE, payload |-> Drop(l4, 8)]
                   ELSE IF ip[10] = IPPROTO_TCP THEN
                       IF Len(l4) < 20 \/ (l4[13] \div 16) * 4 < 20 \/ Len(l4) < (l4[13] \div 16) * 4
                       THEN [ok |-> FALSE, payload |-> <<>>]
                       ELSE [ok |-> TRUE, payload |-> Drop(l4, (l4[13] \div 16) * 4)]
                   ELSE [ok |-> TRUE, payload |-> l4]

\* payload_from_pcap: packet.payload on every path
payload_from_pcap(packet) == packet.payload

\* PcapDogStatsDReader::new
PcapDogStatsDReader_new(stream) ==
    LET reader == PcapReader_new(stream) IN
    IF reader.ok THEN [ok |-> TRUE, pcap_reader |-> reader, current_messages |-> <<>>]
    ELSE [ok |-> FALSE, err |-> reader.err]

\* PcapDogStatsDReader::read_msg(&mut s): "Ok" with n = 0 or 1, or an error
\* ("Ethernet", "InvalidUtf8Sequence", "PcapReader").
PcapDogStatsDReader_read_msg(stream, r, str) ==
    IF r.current_messages # <<>>
    THEN [r |-> [r EXCEPT !.current_messages = Tail(r.current_messages)],
          s |-> InsertFront(str, Head(r.current_messages)), res |-> "Ok", n |-> 1]
    ELSE LET p  == PcapReader_read_packet(stream, r.pcap_reader)
             r1 == [r EXCEPT !.pcap_reader = p.r]
         IN
         IF p.res = "None" THEN [r |-> r1, s |-> str, res |-> "Ok", n |-> 0]
         ELSE IF p.res = "Err" THEN [r |-> r1, s |-> str, res |-> "PcapReader", n |-> 0]
         ELSE LET sliced == from_ethernet(p.data) IN
              IF ~sliced.ok THEN [r |-> r1, s |-> str, res |-> "Ethernet", n |-> 0]
              ELSE LET data == payload_from_pcap(sliced) IN
                   IF ~IsUtf8(data) THEN [r |-> r1, s |-> str, res |-> "InvalidUtf8Sequence", n |-> 0]
                   ELSE IF data = <<>> THEN [r |-> r1, s |-> str, res |-> "Ok", n |-> 0]
                   ELSE LET q == QueueLines(r1.current_messages, data) IN
                        [r |-> [r1 EXCEPT !.current_messages = Tail(q)],
                         s |-> InsertFront(str, Head(q)), res |-> "Ok", n |-> 1]

---------------------------------------------------------------------------
(* zstd.rs *)

ZSTD_MAGIC_BYTES == <<40, 181, 47, 253>>

\* is_zstd that reads the magic number 0xFD2FB528 in big-endian order
is_zstd_big_endian(header) == header = <<253, 47, 181, 40>>

\* is_zstd
is_zstd(header) ==
    /\ header[1] = ZSTD_MAGIC_BYTES[1]
    /\ header[2] = ZSTD_MAGIC_BYTES[2]
    /\ header[3] = ZSTD_MAGIC_BYTES[3]
    /\ header[4] = ZSTD_MAGIC_BYTES[4]

---------------------------------------------------------------------------
(* utf8dogstatsdreader.rs *)

\* Utf8DogStatsDReader::new
Utf8DogStatsDReader_new(buf) == [pos |-> 0]

\* Utf8DogStatsDReader::read_msg(&mut s).  read_line appends the bytes up to
\* and including the next LF (or up to the end of the stream) to s, and
\* fails, with the bytes consumed and s as it was, when they are not UTF-8.
Utf8DogStatsDReader_read_msg(stream, r, str) ==
    LET rest     == Drop(stream, r.pos)
        i        == Find(rest, 10)
        chunk    == IF i = 0 THEN rest ELSE Take(rest, i)
        num_read == Len(chunk)
        r1       == [r EXCEPT !.pos = r.pos + num_read]
        trimmed  == TrimEnd(str \o chunk)
    IN  IF ~IsUtf8(chunk) THEN [r |-> r1, s |-> str, res |-> "Io", n |-> 0]
        ELSE IF num_read <= 0 THEN [r |-> r1, s |-> str, res |-> "Ok", n |-> num_read]
        ELSE IF Len(trimmed) = 0 THEN [r |-> r1, s |-> trimmed, res |-> "Ok", n |-> 0]
        ELSE [r |-> r1, s |-> trimmed, res |-> "Ok", n |-> 1]

---------------------------------------------------------------------------
(* dogstatsdreader.rs *)

\* input_type_of(header): header is a copy of the peeked bytes, and
\* is_replay and is_pcap each get a clone of it.
input_type_of(header) ==
    IF is_replay(header) = "ok" THEN "Replay"
    ELSE IF is_pcap(header) = "ok" THEN "Pcap"
    ELSE "Utf8"

\* BufReader::fill_buf: what one read of the underlying stream puts in the
\* buffer (at most cap bytes); nothing is consumed.
fill_buf(stream, reader) == Take(Drop(stream, reader.pos), reader.cap)

\* A Zstandard frame holding x in one raw block: magic, frame header
\* descriptor 20 (single segment, one-byte content size), content size,
\* block header (last block, raw, size), the bytes.
ZstdEncode(x) ==
    ZSTD_MAGIC_BYTES \o <<32, Len(x)>>
    \o <<(1 + 8 * Len(x)) % 256, ((1 + 8 * Len(x)) \div 256) % 256, 0>> \o x

\* zstd::Decoder read to the end of a stream that holds one frame of that
\* shape: the content, "UnexpectedEof" for a frame that is cut, "Other" for
\* one that is corrupt.
ZstdDecode(b) ==
    IF Len(b) < 9 THEN [res |-> "UnexpectedEof", data |-> <<>>]
    ELSE LET v    == b[7] + 256 * b[8] + 65536 * b[9]
             size == v \div 8
         IN  IF SubSeq(b, 1, 4) # ZSTD_MAGIC_BYTES \/ b[5] # 32 \/ v % 8 # 1 \/ b[6] # size
             THEN [res |-> "Other", data |-> <<>>]
             ELSE IF Len(b) < 9 + size THEN [res |-> "UnexpectedEof", data |-> <<>>]
             ELSE [res |-> "ok", data |-> SubSeq(b, 10, 9 + size)]

\* Position of a BufReader after fill_buf peeked n bytes, with consume called
AfterPeek_consumed(pos, n) == pos + n

\* Position of a BufReader after fill_buf peeked n bytes: consume is never
\* called
AfterPeek(pos, n) == pos

NoReader == [state |-> "failed", type |-> "none", data |-> <<>>, r |-> [pos |-> 0]]

\* DogStatsDReader::new, the match on input_type_of: the framer over the
\* stream from the BufReader's position.
NewFramer(data, header, peek, repeek) ==
    LET start  == AfterPeek(0, 8)
        stream == Drop(data, start)
        type   == input_type_of(header)
        opened(r) == [out |-> [op |-> "new", res |-> "Ok", kind |-> "", type |-> type,
                               n |-> 0, line |-> <<>>],
                      peek |-> peek, repeek |-> repeek, start |-> start,
                      reader |-> [state |-> "open", type |-> type, data |-> stream, r |-> r]]
    IN  IF type = "Pcap"
        THEN LET r == PcapDogStatsDReader_new(stream) IN
             IF r.ok THEN opened(r)
             ELSE [out |-> [op |-> "new", res |-> "Panic", kind |-> r.err, type |-> type,
                            n |-> 0, line |-> <<>>],
                   peek |-> peek, repeek |-> repeek, start |-> start, reader |-> NoReader]
        ELSE IF type = "Replay" THEN opened(DogStatsDReplayReader_new(stream))
        ELSE opened(Utf8DogStatsDReader_new(stream))

\* DogStatsDReader::new over a stream whose first read yields at most cap
\* bytes: the result, the lengths of the peeks, and the reader.
DogStatsDReader_new(stream, cap) ==
    LET start_buf == fill_buf(stream, [pos |-> 0, cap |-> cap])
        io(kind, repeek) ==
            [out |-> [op |-> "new", res |-> "Io", kind |-> kind, type |-> "none",
                      n |-> 0, line |-> <<>>],
             peek |-> Len(start_buf), repeek |-> repeek, start |-> 0, reader |-> NoReader]
    IN  IF Len(start_buf) < 8 THEN io("UnexpectedEof", -1)
        ELSE IF is_zstd(SubSeq(start_buf, 1, 4))
        THEN LET d == ZstdDecode(stream) IN
             IF d.res # "ok" THEN io(d.res, -1)
             ELSE IF Len(d.data) < 8 THEN io("UnexpectedEof", Len(d.data))
             ELSE NewFramer(d.data, SubSeq(d.data, 1, 8), Len(start_buf), Len(d.data))
        ELSE NewFramer(stream, SubSeq(start_buf, 1, 8), Len(start_buf), -1)

\* DogStatsDReader::read_msg
DogStatsDReader_read_msg(reader, str) ==
    IF reader.type = "Utf8" THEN Utf8DogStatsDReader_read_msg(reader.data, reader.r, str)
    ELSE IF reader.type = "Replay" THEN DogStatsDReplayReader_read_msg(reader.r, str)
    ELSE PcapDogStatsDReader_read_msg(reader.data, reader.r, str)

---------------------------------------------------------------------------
(* std: numbers.  A usize is kept as an integer r: r >= 0 stands for r, and
   r < 0 for 2^64 + r, so that sums are sums of representatives and a sum
   passes 2^64 exactly when Overflows says so. *)

IsDigits(b) == b # <<>> /\ \A i \in 1..Len(b) : b[i] \in 48..57

RECURSIVE DecimalValue(_)
DecimalValue(d) ==
    IF d = <<>> THEN 0 ELSE 10 * DecimalValue(SubSeq(d, 1, Len(d) - 1)) + (Last(d) - 48)

RECURSIVE StripZeros(_)
StripZeros(d) == IF Len(d) > 1 /\ d[1] = 48 THEN StripZeros(Tail(d)) ELSE d

\* str::parse::<usize>() on a 64-bit target: an optional '+', then digits;
\* an error for anything else and for a number above 18446744073709551615.
\* Numbers between 10^9 and 2^64 - 709551616 are kept as 10^9: like them
\* it exceeds every length of the model and overflows no sum.
ParseUsize(b) ==
    LET u == IF b # <<>> /\ b[1] = 43 THEN Tail(b) ELSE b
        d == StripZeros(u)
        p1 == DecimalValue(SubSeq(d, 1, 2))
        p2 == DecimalValue(SubSeq(d, 3, 11))
        p3 == DecimalValue(SubSeq(d, 12, 20))
    IN  IF ~IsDigits(u) \/ Len(d) > 20 THEN [ok |-> FALSE, val |-> 0]
        ELSE IF Len(d) <= 9 THEN [ok |-> TRUE, val |-> DecimalValue(d)]
        ELSE IF Len(d) < 20 \/ p1 < 18 \/ (p1 = 18 /\ p2 < 446744073)
        THEN [ok |-> TRUE, val |-> 1000000000]
        ELSE IF p1 = 18 /\ p2 = 446744073 /\ p3 <= 709551615
        THEN [ok |-> TRUE, val |-> p3 - 709551616]
        ELSE [ok |-> FALSE, val |-> 0]

\* a + b passes usize::MAX
Overflows(a, b) == (a < 0 /\ b < 0) \/ ((a < 0 \/ b < 0) /\ a + b >= 0)

\* str::get(start..end) is Some
StrGetOk(b, start, end) ==
    /\ start >= 0 /\ end >= 0 /\ start <= end /\ end <= Len(b)
    /\ IsCharBoundary(b, start) /\ IsCharBoundary(b, end)

\* &s[i..] does not panic
CanSliceFrom(b, i) == i <= Len(b) /\ IsCharBoundary(b, i)

StartsWith(b, prefix) == Len(b) >= Len(prefix) /\ SubSeq(b, 1, Len(prefix)) = prefix

ToLower(b) == [i \in 1..Len(b) |-> IF b[i] \in 65..90 THEN b[i] + 32 ELSE b[i]]

\* str::parse::<f64>() succeeds: an optional sign, then inf, infinity or nan
\* in any case, or digits with at most one '.' and at least one digit,
\* optionally followed by e or E, an optional sign, and digits.
IsF64(b) ==
    LET u == IF b # <<>> /\ b[1] \in {43, 45} THEN Tail(b) ELSE b
        l == ToLower(u)
        e == Find(l, 101)
        m == IF e = 0 THEN u ELSE SubSeq(u, 1, e - 1)
        x == IF e = 0 THEN <<>> ELSE Drop(u, e)
        xd == IF x # <<>> /\ x[1] \in {43, 45} THEN Tail(x) ELSE x
        dot == Find(m, 46)
        ip == IF dot = 0 THEN m ELSE SubSeq(m, 1, dot - 1)
        fp == IF dot = 0 THEN <<>> ELSE Drop(m, dot)
    IN  \/ l \in { <<105, 110, 102>>, <<105, 110, 102, 105, 110, 105, 116, 121>>, <<110, 97, 110>> }
        \/ /\ ip \o fp # <<>>
           /\ \A i \in 1..Len(ip) : ip[i] \in 48..57
           /\ \A i \in 1..Len(fp) : fp[i] \in 48..57
           /\ e # 0 => IsDigits(xd)

---------------------------------------------------------------------------
(* dogstatsdmsg.rs.  An Option<&str> is a sequence of no or one string. *)

NoMsg ==
    [res |-> "Ok", kind |-> "", reason |-> "", raw_msg |-> <<>>, name |-> <<>>,
     title |-> <<>>, text |-> <<>>, values |-> <<>>, metric_type |-> "", status |-> "",
     tags |-> <<>>, timestamp |-> <<>>, hostname |-> <<>>, priority |-> <<>>,
     alert_type |-> "Info", aggregation_key |-> <<>>, source_type_name |-> <<>>,
     message |-> <<>>, sample_rate |-> <<>>, container_id |-> <<>>]

\* DogStatsDMsgError::new_parse_error
new_parse_error(kind, reason, raw_msg) ==
    [NoMsg EXCEPT !.res = "Err", !.kind = kind, !.reason = reason, !.raw_msg = raw_msg]

\* The thread panics (index or slice out of range, overflow check)
Panicked == [NoMsg EXCEPT !.res = "Panic"]

\* EventAlert::try_from, Info when it fails
EventAlert_try_from(b) ==
    IF b = <<101, 114, 114, 111, 114>> THEN "Error"
    ELSE IF b = <<119, 97, 114, 110, 105, 110, 103>> THEN "Warning"
    ELSE IF b = <<115, 117, 99, 99, 101, 115, 115>> THEN "Success"
    ELSE "Info"

\* The loops over the optional fields of an event and of a service check:
\* field names by first byte, &part[2..] for a named field, the tags after
\* '#', an error for any other field.
RECURSIVE OptionalFields(_, _, _, _)
OptionalFields(parts, msg, names, err) ==
    IF parts = <<>> THEN msg
    ELSE LET part == Head(parts) IN
         IF part # <<>> /\ part[1] \in DOMAIN names
         THEN IF ~CanSliceFrom(part, 2) THEN Panicked
              ELSE OptionalFields(Tail(parts),
                       [msg EXCEPT ![names[part[1]]] =
                           IF names[part[1]] = "alert_type" THEN EventAlert_try_from(Drop(part, 2))
                           ELSE <<Drop(part, 2)>>],
                       names, err)
         ELSE IF part # <<>> /\ part[1] = 35
         THEN OptionalFields(Tail(parts), [msg EXCEPT !.tags = @ \o Split(Drop(part, 1), 44)],
                             names, err)
         ELSE err

EventFieldNames ==
    (100 :> "timestamp") @@ (104 :> "hostname") @@ (112 :> "priority") @@
    (116 :> "alert_type") @@ (107 :> "aggregation_key") @@ (115 :> "source_type_name")

ServiceCheckFieldNames == (100 :> "timestamp") @@ (104 :> "hostname") @@ (109 :> "message")

\* DogStatsDMsg::parse_event; checks says that the build checks additions
\* for overflow (a debug build) rather than wrapping them (a release build).
parse_event(orig_msg, checks) ==
    LET str_msg == TrimEnd(orig_msg)
        err(reason) == new_parse_error("Event", reason, str_msg)
        start_lengths_idx == Find(str_msg, 123) - 1
        end_lengths_idx == Find(str_msg, 125) - 1
        lengths == Split(SubSeq(str_msg, start_lengths_idx + 2, end_lengths_idx), 44)
        title_length == ParseUsize(lengths[1])
        text_length == ParseUsize(lengths[2])
        title_start_idx == end_lengths_idx + 2
        title_end_idx == title_start_idx + title_length.val
        text_start_idx == title_end_idx + 1
        text_end_idx == text_start_idx + text_length.val
        post_text_idx == end_lengths_idx + 2 + title_length.val + text_length.val + 1
        post_text_msg == Drop(str_msg, post_text_idx)
        msg == [NoMsg EXCEPT !.kind = "Event", !.raw_msg = orig_msg,
                   !.title = SubSeq(str_msg, title_start_idx + 1, title_end_idx),
                   !.text = SubSeq(str_msg, text_start_idx + 1, text_end_idx)]
    IN  IF start_lengths_idx < 0 THEN err("No opening brace found")
        ELSE IF end_lengths_idx < 0 THEN err("No closing brace found")
        ELSE IF start_lengths_idx + 1 > end_lengths_idx THEN Panicked
        ELSE IF ~title_length.ok THEN err("Invalid title length specified")
        ELSE IF Len(lengths) < 2 THEN Panicked
        ELSE IF ~text_length.ok THEN err("Invalid text length specified")
        ELSE IF checks /\ (\/ Overflows(title_start_idx, title_length.val)
                           \/ Overflows(title_end_idx, 1)
                           \/ Overflows(text_start_idx, text_length.val))
        THEN Panicked
        ELSE IF ~StrGetOk(str_msg, title_start_idx, title_end_idx)
        THEN err("Title length specified is longer than msg length")
        ELSE IF ~StrGetOk(str_msg, text_start_idx, text_end_idx)
        THEN err("Text length specified is longer than msg length")
        ELSE IF post_text_idx < Len(str_msg)
        THEN IF post_text_msg[1] # 124
             THEN err("data present after title and text, but did not start with a pipe")
             ELSE OptionalFields(Split(Tail(post_text_msg), 124), msg, EventFieldNames,
                                 err("Unknown event field value found"))
        ELSE msg

\* DogStatsDMetricType::from_str
DogStatsDMetricType_from_str(b) ==
    IF b = <<99>> THEN "Count" ELSE IF b = <<103>> THEN "Gauge"
    ELSE IF b = <<104>> THEN "Histogram" ELSE IF b = <<109, 115>> THEN "Timer"
    ELSE IF b = <<115>> THEN "Set" ELSE IF b = <<100>> THEN "Distribution"
    ELSE ""

\* A search that gives up at a segment it does not recognise
RECURSIVE FindPart_stops(_, _)
FindPart_stops(parts, prefix) ==
    IF parts = <<>> \/ Head(parts) \in { <<>>, <<120>>, <<122, 122>> } THEN <<>>
    ELSE IF Len(Head(parts)) >= Len(prefix) /\ SubSeq(Head(parts), 1, Len(prefix)) = prefix
    THEN <<SubSeq(Head(parts), Len(prefix) + 1, Len(Head(parts)))>>
    ELSE FindPart_stops(Tail(parts), prefix)

\* A search that looks at the segment right after the type only
FindPart_third(parts, prefix) ==
    IF Len(parts) >= 3 /\ Len(parts[3]) >= Len(prefix) /\ SubSeq(parts[3], 1, Len(prefix)) = prefix
    THEN <<SubSeq(parts[3], Len(prefix) + 1, Len(parts[3]))>>
    ELSE <<>>

\* parts.iter().find(|part| part.starts_with(prefix)).map(|p| &p[prefix.len()..])
RECURSIVE FindPart(_, _)
FindPart(parts, prefix) ==
    IF parts = <<>> THEN <<>>
    ELSE IF StartsWith(Head(parts), prefix) THEN <<Drop(Head(parts), Len(prefix))>>
    ELSE FindPart(Tail(parts), prefix)

\* DogStatsDMsg::parse_metric; a value is kept as the text that parsed as f64
parse_metric(untrimmed) ==
    LET str_msg == TrimEnd(untrimmed)
        err(reason) == new_parse_error("Metric", reason, str_msg)
        parts == Split(str_msg, 124)
        prepipe == parts[1]
        colon == Find(prepipe, 58)
        name == SubSeq(prepipe, 1, colon - 1)
        str_values == Split(Drop(prepipe, colon), 58)
        found_tags == FindPart(parts, <<35>>)
    IN  IF colon = 0 THEN err("Name or value missing")
        ELSE IF \E i \in 1..Len(str_values) : ~IsF64(str_values[i])
        THEN err("Invalid or no value found")
        ELSE IF Len(parts) < 2 THEN err("No metric type found")
        ELSE IF Len(parts[2]) > 2 THEN err("Too many chars for metric type")
        ELSE IF DogStatsDMetricType_from_str(parts[2]) = ""
        THEN err("Invalid metric type found.")
        ELSE [NoMsg EXCEPT !.kind = "Metric", !.raw_msg = str_msg, !.name = name,
                 !.values = str_values,
                 !.metric_type = DogStatsDMetricType_from_str(parts[2]),
                 !.tags = IF found_tags = <<>> THEN <<>> ELSE Split(found_tags[1], 44),
                 !.timestamp = FindPart(parts, <<84>>),
                 !.sample_rate = FindPart(parts, <<64>>),
                 !.container_id = FindPart(parts, <<99, 58>>)]

\* ServiceCheckStatus::try_from
ServiceCheckStatus_try_from(b) ==
    IF b = <<48>> THEN "Ok" ELSE IF b = <<49>> THEN "Warning"
    ELSE IF b = <<50>> THEN "Critical" ELSE IF b = <<51>> THEN "Unknown"
    ELSE ""

\* DogStatsDMsg::parse_servicecheck
parse_servicecheck(raw_msg) ==
    LET str_msg == TrimEnd(raw_msg)
        err(reason) == new_parse_error("ServiceCheck", reason, raw_msg)
        fields == Split(str_msg, 124)
    IN  IF fields[1] # <<95, 115, 99>> THEN err("Unexpected prefix found for service check")
        ELSE IF Len(fields) < 2 THEN err("Not enough fields, couldn't find name")
        ELSE IF Len(fields) < 3 THEN err("Not enough fields, couldn't find status")
        ELSE IF ServiceCheckStatus_try_from(fields[3]) = "" THEN err("Invalid status found.")
        ELSE OptionalFields(SubSeq(fields, 4, Len(fields)),
                 [NoMsg EXCEPT !.kind = "ServiceCheck", !.raw_msg = raw_msg,
                     !.name = fields[2], !.status = ServiceCheckStatus_try_from(fields[3])],
                 ServiceCheckFieldNames, err("Unknown servicecheck field value found"))

\* DogStatsDMsg::new
DogStatsDMsg_new(str_msg, checks) ==
    IF StartsWith(str_msg, <<95, 101>>) THEN parse_event(str_msg, checks)
    ELSE IF StartsWith(str_msg, <<95, 115, 99>>) THEN parse_servicecheck(str_msg)
    ELSE parse_metric(str_msg)

---------------------------------------------------------------------------
(* analysis.rs *)

\* a < b for strings, byte by byte (Ord for str)
RECURSIVE StrLess(_, _)
StrLess(a, b) ==
    IF b = <<>> THEN FALSE
    ELSE IF a = <<>> THEN TRUE
    ELSE IF a[1] # b[1] THEN a[1] < b[1]
    ELSE StrLess(Tail(a), Tail(b))

\* The tags as the hasher is given them, in the order of the message
BTreeSet_unsorted(tags) == tags

\* metric_msg.tags.iter().collect::<BTreeSet<&&str>>() and its iteration:
\* the distinct tags, each once, in ascending order
RECURSIVE BTreeSet_iter(_)
BTreeSet_iter(tags) ==
    LET set == { tags[i] : i \in 1..Len(tags) }
        least == CHOOSE x \in set : \A y \in set : x = y \/ StrLess(x, y)
    IN  IF tags = <<>> THEN <<>>
        ELSE <<least>> \o BTreeSet_iter(SelectSeq(tags, LAMBDA x : x # least))

\* Hasher::write_usize(n) then Hasher::write(bytes), usize of 8 bytes
write_str(bytes) == ToLE32(Len(bytes)) \o <<0, 0, 0, 0>> \o bytes

\* What the hasher of a metric's context is given.  The 64-bit hash of
\* finish() is kept as this stream: two contexts are told apart exactly when
\* their streams differ, as the hash does up to a collision.
metric_context(name, tags) ==
    LET labels == BTreeSet_iter(tags) IN
    write_str(name) \o Concat([i \in 1..Len(labels) |-> write_str(labels[i])])

\* DogStatsDMetricType
MetricTypes == {"Count", "Gauge", "Set", "Timer", "Histogram", "Distribution"}

\* msg_stats and the maps of analyze_msgs before the loop; pc is where the
\* call stands: in the loop, returned, or aborted by a panic
NewBatchStats ==
    [pc |-> "loop", num_msgs |-> 0, Event |-> 0, ServiceCheck |-> 0, Metric |-> 0,
     per_type |-> [ty \in MetricTypes |-> 0],
     tags_seen |-> {}, context_map |-> {}, last_context |-> <<>>,
     num_msgs_with_multivalue |-> 0, total_unique_tags |-> 0, num_contexts |-> 0]

\* The end of analyze_msgs, after the loop
analyze_end(st) ==
    [st EXCEPT !.pc = "returned",
               !.total_unique_tags = Cardinality(st.tags_seen),
               !.num_contexts = Cardinality(st.context_map)]

\* One turn of the loop of analyze_msgs on the outcome o of read_msg and the
\* result m of DogStatsDMsg::new on the line read
analyze_turn(st, o, m) ==
    LET counted == [st EXCEPT !.num_msgs = @ + 1, !.last_context = <<>>]
        context == metric_context(m.name, m.tags)
    IN  IF o.res # "Ok" \/ o.n = 0 THEN analyze_end(st)
        ELSE IF m.res = "Panic" THEN [counted EXCEPT !.pc = "panicked"]
        ELSE IF m.res = "Err" THEN counted
        ELSE IF m.kind = "Event" THEN [counted EXCEPT !.Event = @ + 1]
        ELSE IF m.kind = "ServiceCheck" THEN [counted EXCEPT !.ServiceCheck = @ + 1]
        ELSE [counted EXCEPT
                 !.tags_seen = @ \cup { m.tags[i] : i \in 1..Len(m.tags) },
                 !.num_msgs_with_multivalue = IF Len(m.values) > 1 THEN @ + 1 ELSE @,
                 !.context_map = @ \cup {context},
                 !.last_context = context,
                 !.Metric = @ + 1,
                 !.per_type[m.metric_type] = @ + 1]

---------------------------------------------------------------------------
(* f32.  A finite positive value is [m, e] with 2^23 <= m < 2^24, standing
   for m * 2^e; zero is [m |-> 0, e |-> 0]; [m |-> -1] is an infinity and
   [m |-> -2] a NaN.  The values of the model are far from the subnormals. *)

RECURSIVE Pow2(_)
Pow2(k) == IF k = 0 THEN 1 ELSE 2 * Pow2(k - 1)

\* m * 2^e with m brought into 2^23 .. 2^24 - 1
RECURSIVE F32Normal(_, _)
F32Normal(m, e) ==
    IF m = 0 THEN [m |-> 0, e |-> 0]
    ELSE IF m < 8388608 THEN F32Normal(2 * m, e - 1)
    ELSE [m |-> m, e |-> e]

\* n as f32, exact for n < 2^24
u32_as_f32(n) == F32Normal(n, 0)

\* k more bits of the quotient q (remainder r) of a division by d
RECURSIVE LongDivision(_, _, _, _)
LongDivision(q, r, d, k) ==
    IF k = 0 THEN [q |-> q, r |-> r]
    ELSE IF 2 * r >= d THEN LongDivision(2 * q + 1, 2 * r - d, d, k - 1)
    ELSE LongDivision(2 * q, 2 * r, d, k - 1)

\* x / y in f32: the quotient to 24 bits, rounded to nearest, ties to even
F32Div(x, y) ==
    LET bits == IF x.m >= y.m THEN 23 ELSE 24
        d == LongDivision(x.m \div y.m, x.m % y.m, y.m, bits)
        up == 2 * d.r > y.m \/ (2 * d.r = y.m /\ d.q % 2 = 1)
        q == IF up THEN d.q + 1 ELSE d.q
    IN  IF x.m < 0 \/ y.m < 0 THEN [m |-> -2, e |-> 0]
        ELSE IF y.m = 0 THEN [m |-> IF x.m = 0 THEN -2 ELSE -1, e |-> 0]
        ELSE IF x.m = 0 THEN x
        ELSE IF q = 16777216 THEN [m |-> 8388608, e |-> x.e - y.e - bits + 1]
        ELSE [m |-> q, e |-> x.e - y.e - bits]

\* A conversion that drops the fraction instead of rounding
trunc_as_u8(x) ==
    IF x.m = -2 \/ x.m = 0 THEN 0
    ELSE IF x.m = -1 \/ x.e >= 0 THEN 255
    ELSE IF -x.e > 24 THEN 0
    ELSE IF x.m \div Pow2(-x.e) > 255 THEN 255 ELSE x.m \div Pow2(-x.e)

\* f32::round (half away from zero), then `as u8`: NaN gives 0, a value
\* above 255 gives 255
round_as_u8(x) ==
    IF x.m = -2 \/ x.m = 0 THEN 0
    ELSE IF x.m = -1 \/ x.e >= 0 THEN 255
    ELSE IF -x.e > 24 THEN 0
    ELSE LET r == (x.m + Pow2(-x.e - 1)) \div Pow2(-x.e) IN
         IF r > 255 THEN 255 ELSE r

\* u8::MAX as f32
U8_MAX_F32 == u32_as_f32(255)

\* (n as f32 / scale_factor).round() as u8
scaled(n, scale_factor) == round_as_u8(F32Div(u32_as_f32(n), scale_factor))

\* u32 addition, left to right
RECURSIVE SumU32(_)
SumU32(q) == IF q = <<>> THEN 0 ELSE SumU32(SubSeq(q, 1, Len(q) - 1)) + Last(q)

\* DogStatsDBatchStats::get_metric_weights on kind[Metric] = (total_metrics,
\* Some(metric_map)): the weights w, or default for MetricWeights::default()
\* of lading_payload
get_metric_weights(total_metrics, metric_map) ==
    LET sum == SumU32(<<metric_map["Count"], metric_map["Gauge"], metric_map["Set"],
                        metric_map["Timer"], metric_map["Histogram"],
                        metric_map["Distribution"]>>)
        scale_factor == F32Div(u32_as_f32(sum), U8_MAX_F32)
    IN  IF total_metrics = 0 THEN [default |-> TRUE, w |-> <<>>]
        ELSE IF total_metrics < 255
        THEN [default |-> FALSE, w |-> [ty \in MetricTypes |-> metric_map[ty] % 256]]
        ELSE [default |-> FALSE,
              w |-> [ty \in MetricTypes |-> scaled(metric_map[ty], scale_factor)]]

\* DogStatsDBatchStats::get_kind_weights on the three totals
get_kind_weights(num_metrics, num_events, num_service_checks) ==
    LET scale_factor ==
            F32Div(u32_as_f32(num_metrics + num_events + num_service_checks), U8_MAX_F32)
    IN  [Metric |-> scaled(num_metrics, scale_factor),
         Event |-> scaled(num_events, scale_factor),
         ServiceCheck |-> scaled(num_service_checks, scale_factor)]

\* x is a number of the interval [0, 1]
F32InUnit(x) == x.m = 0 \/ (x.m > 0 /\ (x.e < -23 \/ (x.e = -23 /\ x.m = 8388608)))

\* DogStatsDBatchStats::to_lading_payload_config on the counters of stats.
\* Config::valid() belongs to lading_payload: valid is its verdict on a
\* configuration whose probability is not a number of [0, 1], and expect()
\* panics when the verdict is an error.
to_lading_payload_config(stats, valid) ==
    LET multivalue_pack_probability ==
            F32Div(u32_as_f32(stats.num_msgs_with_multivalue), u32_as_f32(stats.num_msgs))
    IN  [op |-> "payload",
         res |-> IF F32InUnit(multivalue_pack_probability) \/ valid THEN "Ok" ELSE "Panic",
         multivalue_pack_probability |-> multivalue_pack_probability,
         kind_weights |-> get_kind_weights(stats.Metric, stats.Event, stats.ServiceCheck),
         metric_weights |-> get_metric_weights(stats.Metric, stats.metric_map)]

---------------------------------------------------------------------------
(* dogstatsdreader.rs: Analytics.  A Duration is [secs, nanos] with
   nanos < 10^9; an f64 quotient of two small integers is kept as the
   fraction [num, den] it rounds. *)

NANOS_PER_SEC == 1000000000

\* Duration - Duration (std): panics when the result would be negative
Duration_sub(a, b) ==
    IF a.secs < b.secs \/ (a.secs = b.secs /\ a.nanos < b.nanos) THEN [ok |-> FALSE]
    ELSE IF a.nanos >= b.nanos
    THEN [ok |-> TRUE, secs |-> a.secs - b.secs, nanos |-> a.nanos - b.nanos]
    ELSE [ok |-> TRUE, secs |-> a.secs - b.secs - 1, nanos |-> a.nanos + NANOS_PER_SEC - b.nanos]

\* Analytics::new
Analytics_new(transport_type) ==
    [total_packets |-> 0, total_bytes |-> 0, total_messages |-> 0,
     earliest_timestamp |-> [secs |-> 0, nanos |-> 0],
     latest_timestamp |-> [secs |-> 0, nanos |-> 0],
     transport_type |-> transport_type]

\* Analytics::duration
Analytics_duration(a) == Duration_sub(a.latest_timestamp, a.earliest_timestamp)

\* Duration::as_secs: the whole seconds
as_secs(d) == d.secs

\* Duration::as_secs_f64, as a fraction of whole milliseconds
as_secs_exact(d) == [num |-> d.secs * 1000 + d.nanos \div 1000000, den |-> 1000]

\* Analytics::average_bytes_per_second: "Panic" when duration() panics
Analytics_average_bytes_per_second(a) ==
    LET d == Analytics_duration(a) IN
    IF ~d.ok THEN [res |-> "Panic", num |-> 0, den |-> 1]
    ELSE IF as_secs(d) = 0 THEN [res |-> "Ok", num |-> 0, den |-> 1]
    ELSE [res |-> "Ok", num |-> a.total_bytes, den |-> as_secs(d)]

\* Config for the UDP generator whatever the transport
Analytics_to_lading_generator_config_udp(a) ==
    LET avg == Analytics_average_bytes_per_second(a) IN
    [res |-> avg.res, generator |-> "Udp", bytes_per_second |-> avg.num \div avg.den]

\* Analytics::to_lading_generator_config: the variant of generator::Inner
\* and its bytes_per_second (the average `as u128`)
Analytics_to_lading_generator_config(a) ==
    LET avg == Analytics_average_bytes_per_second(a) IN
    [res |-> avg.res,
     generator |-> IF a.transport_type = "Udp" THEN "Udp" ELSE "UnixDatagram",
     bytes_per_second |-> avg.num \div avg.den]

\* get_analytics of the packetized readers: a snapshot of the running
\* Analytics, whose transport is UnixDatagram for a replay file and Udp for
\* a capture
PacketReader_get_analytics(type, running) ==
    [running EXCEPT !.transport_type = IF type = "Replay" THEN "UnixDatagram" ELSE "Udp"]

\* DogStatsDReader::get_analytics that has a snapshot for every variant
DogStatsDReader_get_analytics_always(reader, running) ==
    <<PacketReader_get_analytics(reader.type, running)>>

\* DogStatsDReader::get_analytics: Ok(None) or Ok(Some(snapshot))
DogStatsDReader_get_analytics(reader, running) ==
    IF reader.type = "Utf8" THEN <<>>
    ELSE <<PacketReader_get_analytics(reader.type, running)>>

\* DogStatsDBatchStats::to_lading_generator_config on stats.reader_analytics
to_lading_generator_config(reader_analytics) ==
    IF reader_analytics = <<>>
    THEN [res |-> "NotEnoughInfo", generator |-> "", bytes_per_second |-> 0]
    ELSE Analytics_to_lading_generator_config(reader_analytics[1])

\* One turn of `while let Ok(num_read) = reader.read_msg(&mut line)` in
\* print_msgs on the outcome o of read_msg: the lines written to out, and
\* pc "returned" once the loop is left
print_turn(st, o) ==
    IF o.res # "Ok" \/ o.n = 0 THEN [st EXCEPT !.pc = "returned"]
    ELSE [st EXCEPT !.out = Append(@, o.s)]

---------------------------------------------------------------------------
(* rate.rs.  A u32 is kept as two 16-bit halves [hi, lo]. *)

\* Index of the last digit of the run of ASCII digits that starts at i
\* (i - 1: no digit at i)
RECURSIVE DigitRun(_, _)
DigitRun(b, i) == IF i <= Len(b) /\ b[i] \in 48..57 THEN DigitRun(b, i + 1) ELSE i - 1

\* Index of the first byte at or after i that is not white space
RECURSIVE SkipSpace(_, _)
SkipSpace(b, i) == IF i <= Len(b) /\ IsWhitespace(b[i]) THEN SkipSpace(b, i + 1) ELSE i

\* "hz" or "HZ" at i
HzAt(b, i) == i + 1 <= Len(b) /\ SubSeq(b, i, i + 1) \in { <<104, 122>>, <<72, 90>> }

\* HZ_RE.captures(rate).get(1) for (\d+)\s*(hz|HZ): the digits of the
\* leftmost match anywhere in rate, or no capture
HZ_RE_captures(rate) ==
    LET starts == { i \in 1..Len(rate) :
                      /\ DigitRun(rate, i) >= i
                      /\ HzAt(rate, SkipSpace(rate, DigitRun(rate, i) + 1)) }
        first  == CHOOSE i \in starts : \A j \in starts : i <= j
    IN  IF starts = {} THEN <<>> ELSE << SubSeq(rate, first, DigitRun(rate, first)) >>

\* The decimal number digits in 32 bits: the value modulo 2^32, and whether
\* it went past u32::MAX on the way
RECURSIVE U32Horner(_, _)
U32Horner(acc, digits) ==
    IF digits = <<>> THEN acc
    ELSE LET lo == acc.lo * 10 + (digits[1] - 48)
             hi == acc.hi * 10 + lo \div 65536
         IN  U32Horner([hi |-> hi % 65536, lo |-> lo % 65536,
                        overflow |-> acc.overflow \/ hi >= 65536], Tail(digits))

\* str::parse::<u32> on a run of digits
parse_u32(digits) == U32Horner([hi |-> 0, lo |-> 0, overflow |-> FALSE], digits)

\* byte_unit::Byte::from_str on a rate of the forms the tests of rate.rs
\* use: digits, white space or none, and one of the units b, kb, mb in
\* either case; the bytes as a decimal number
Byte_from_str(rate) ==
    LET last == DigitRun(rate, 1)
        unit == ToLower(Drop(rate, SkipSpace(rate, last + 1) - 1))
    IN  IF last < 1 THEN [ok |-> FALSE, bytes |-> <<>>]
        ELSE IF unit = <<98>> THEN [ok |-> TRUE, bytes |-> Take(rate, last)]
        ELSE IF unit = <<107, 98>> THEN [ok |-> TRUE, bytes |-> Take(rate, last) \o <<48, 48, 48>>]
        ELSE IF unit = <<109, 98>>
        THEN [ok |-> TRUE, bytes |-> Take(rate, last) \o <<48, 48, 48, 48, 48, 48>>]
        ELSE [ok |-> FALSE, bytes |-> <<>>]

\* parse_rate: None, TimerBased(u32) or ThroughputBased(u32)
parse_rate(rate) ==
    LET hz_value == HZ_RE_captures(rate)
        hz_u32   == parse_u32(hz_value[1])
        bytes    == Byte_from_str(rate)
        bytes_per_second == parse_u32(bytes.bytes)
    IN  IF hz_value # <<>>
        THEN IF ~hz_u32.overflow
             THEN [kind |-> "TimerBased", hi |-> hz_u32.hi, lo |-> hz_u32.lo]
             ELSE [kind |-> "None", hi |-> 0, lo |-> 0]
        ELSE IF bytes.ok
        THEN [kind |-> "ThroughputBased", hi |-> bytes_per_second.hi, lo |-> bytes_per_second.lo]
        ELSE [kind |-> "None", hi |-> 0, lo |-> 0]

\* dsd-generate, main: what the branch taken for the parsed rate does before
\* its loop emits: the delay 1000 / hz in milliseconds, or the throttle built
\* with NonZeroU32::new(bytes_per_second).unwrap()
emission(spec) ==
    IF spec.kind = "None" THEN [res |-> "Invalid", sleep_in_ms |-> 0]
    ELSE IF spec.hi = 0 /\ spec.lo = 0 THEN [res |-> "Panic", sleep_in_ms |-> 0]
    ELSE IF spec.kind = "TimerBased"
    THEN [res |-> "Ok", sleep_in_ms |-> IF spec.hi > 0 THEN 0 ELSE 1000 \div spec.lo]
    ELSE [res |-> "Ok", sleep_in_ms |-> 0]

---------------------------------------------------------------------------
(* Replay files under test *)

\* records before the sentinel
MaxRecords == 2

ReplayFileHeader == DATADOG_HEADER \o <<243, 255, 0, 0>>

Sentinel == <<0, 0, 0, 0>>

\* Sequences over S of length 0..n
SeqUpTo(S, n) == UNION { [1..k -> S] : k \in 0..n }

\* The records of a file: three messages, and two bodies that prost rejects
\* (a truncated payload field, a wire type that does not exist).
ReplayItems ==
    { [ok |-> TRUE, timestamp |-> 1, payload |-> <<97>>, raw |-> <<>>],
      [ok |-> TRUE, timestamp |-> 2, payload |-> <<98, 10, 97>>, raw |-> <<>>],
      [ok |-> TRUE, timestamp |-> 3, payload |-> <<>>, raw |-> <<>>],
      [ok |-> FALSE, timestamp |-> 0, payload |-> <<>>, raw |-> <<26, 5, 97>>],
      [ok |-> FALSE, timestamp |-> 0, payload |-> <<>>, raw |-> <<15>>] }

BodyOf(item) == IF item.ok THEN EncodeMsg(item.timestamp, item.payload) ELSE item.raw

\* What may follow the sentinel (tagger state): nothing, bytes that read as
\* one more record, a second zero length.
ReplayTrailers == { <<>>, Record(EncodeMsg(4, <<99>>)), Sentinel \o <<1>> }

\* Bytes cut from the end of the file
ReplayCuts == {0, 1, 3, 6}

RECURSIVE RecordsBytes(_)
RecordsBytes(items) ==
    IF items = <<>> THEN <<>> ELSE Record(BodyOf(Head(items))) \o RecordsBytes(Tail(items))

ReplayFile(f) ==
    LET whole == ReplayFileHeader \o RecordsBytes(f.items)
                 \o (IF f.sentinel THEN Sentinel ELSE <<>>) \o f.trailer
    IN  Take(whole, Len(whole) - f.cut)

ReplayFiles ==
    { f \in [items : SeqUpTo(ReplayItems, MaxRecords), sentinel : BOOLEAN,
             trailer : ReplayTrailers, cut : ReplayCuts] :
        /\ ~f.sentinel => f.trailer = <<>>
        /\ f.cut <= Len(RecordsBytes(f.items)) + 4 + Len(f.trailer) }

---------------------------------------------------------------------------
(* SpecReplay: one ReplayReader reading one replay file *)

InitReplay ==
    /\ aux \in ReplayFiles
    /\ input = ReplayFile(aux)
    /\ rd = ReplayReader_new(input)
    /\ s = <<>>
    /\ hist = <<>>

\* replay.read_msg()
ReplayRead ==
    /\ rd.ok
    /\ Len(hist) < MaxCalls
    /\ LET c == ReplayReader_read_msg(input, rd) IN
       /\ rd' = c.r
       /\ hist' = Append(hist, [res |-> c.res, msg |-> c.msg, pos |-> c.r.pos])
    /\ UNCHANGED <<input, s, aux>>

NextReplay == ReplayRead

SpecReplay == InitReplay /\ [][NextReplay]_vars

---------------------------------------------------------------------------
(* C1 *)

\* Offset of the byte after record i of the file that aux describes.
RecEnd(i) == 8 + Len(RecordsBytes(SubSeq(aux.items, 1, i)))

\* C1: ReplayReader::read_msg (replay.rs) returns one message per
\* length-prefixed record, in file order (call i returns record i, and has
\* read up to the end of record i); when it reads the zero length it returns
\* None, and every later call returns None too and leaves the stream where
\* the sentinel ended, whatever bytes follow.
C1_ReplayStopsAtSentinel ==
    /\ \A i \in 1..Len(hist) :
          (i <= Len(aux.items) /\ RecEnd(i) <= Len(input)) =>
             /\ hist[i].pos = RecEnd(i)
             /\ hist[i].res = IF aux.items[i].ok THEN "Some" ELSE "ProtoDecode"
             /\ aux.items[i].ok =>
                   /\ hist[i].msg.timestamp = aux.items[i].timestamp
                   /\ hist[i].msg.payload = aux.items[i].payload
    /\ LET k == Len(aux.items) IN
          (aux.sentinel /\ RecEnd(k) + 4 <= Len(input) /\ Len(hist) > k) =>
             /\ hist[k + 1].res = "None"
             /\ hist[k + 1].pos = RecEnd(k) + 4
    /\ \A i \in 1..Len(hist) : \A j \in 1..Len(hist) :
          (i < j /\ hist[i].res = "None") =>
             /\ hist[j].res = "None"
             /\ hist[j].pos = hist[i].pos

\* Two records were returned, the sentinel was read, bytes that would read as
\* a record follow it, and two more calls were made.
C1_Witness ==
    /\ Len(aux.items) = 2 /\ aux.sentinel /\ aux.cut = 0
    /\ aux.trailer = Record(EncodeMsg(4, <<99>>))
    /\ Len(hist) >= 5
    /\ hist[1].res = "Some" /\ hist[2].res = "Some"
    /\ hist[3].res = "None" /\ hist[5].res = "None"
    /\ hist[5].pos < Len(input)

---------------------------------------------------------------------------
(* Packet files under test: replay files and Ethernet captures whose
   payloads are DogStatsD text *)

\* packets of one file
MaxPackets == 2

\* A payload, given as the lines it was written from: the line terminator,
\* and whether the last line is terminated.
PacketTexts ==
    { [lines |-> << <<97>> >>, crlf |-> FALSE, terminated |-> TRUE],
      [lines |-> << <<97>>, <<98, 58, 49>> >>, crlf |-> FALSE, terminated |-> FALSE],
      [lines |-> << <<99>>, <<>>, <<98>> >>, crlf |-> TRUE, terminated |-> TRUE],
      [lines |-> << >>, crlf |-> FALSE, terminated |-> FALSE],
      [lines |-> << <<>> >>, crlf |-> FALSE, terminated |-> TRUE],
      [lines |-> << <<195, 169>>, <<97>> >>, crlf |-> FALSE, terminated |-> TRUE] }

RECURSIVE JoinLines(_, _, _)
JoinLines(lines, crlf, terminated) ==
    IF lines = <<>> THEN <<>>
    ELSE Head(lines)
         \o (IF Len(lines) > 1 \/ terminated THEN (IF crlf THEN <<13, 10>> ELSE <<10>>) ELSE <<>>)
         \o JoinLines(Tail(lines), crlf, terminated)

TextOf(d) == JoinLines(d.lines, d.crlf, d.terminated)

U32(big, n) == IF big THEN ToBE32(n) ELSE ToLE32(n)

UdpDatagram(payload) ==
    <<156, 64, 31, 189, (8 + Len(payload)) \div 256, (8 + Len(payload)) % 256, 0, 0>> \o payload

TcpSegment(payload) ==
    <<156, 64, 31, 189, 0, 0, 0, 1, 0, 0, 0, 0, 80, 24, 2, 0, 0, 0, 0, 0>> \o payload

Ipv4Datagram(protocol, l4) ==
    <<69, 0, (20 + Len(l4)) \div 256, (20 + Len(l4)) % 256, 0, 0, 64, 0, 64, protocol, 0, 0,
      127, 0, 0, 1, 127, 0, 0, 1>> \o l4

EthernetFrame(ethertype, body) == Zeros(12) \o <<ethertype \div 256, ethertype % 256>> \o body

Sll2Frame(protocol_type, body) ==
    <<protocol_type \div 256, protocol_type % 256, 0, 0, 0, 0, 0, 1, 3, 4, 0, 6>> \o Zeros(8) \o body

PcapFileHeader(big, datalink) ==
    (IF big THEN PCAP_HEADER \o <<0, 2, 0, 4>> ELSE PCAP_HEADER_SWAPPED \o <<2, 0, 4, 0>>)
    \o Zeros(8) \o U32(big, 262144) \o U32(big, datalink)

PcapRecord(big, data) == U32(big, 1) \o U32(big, 0) \o U32(big, Len(data)) \o U32(big, Len(data)) \o data

\* The bytes of packet i of file f
PacketBytes(f, i) ==
    IF f.kind = "replay" THEN Record(EncodeMsg(i, TextOf(f.packets[i])))
    ELSE PcapRecord(f.big, EthernetFrame(ETHERTYPE_IPV4,
                           Ipv4Datagram(IPPROTO_UDP, UdpDatagram(TextOf(f.packets[i])))))

PacketFile(f) ==
    (IF f.kind = "replay" THEN ReplayFileHeader ELSE PcapFileHeader(f.big, DATALINK_ETHERNET))
    \o Concat([i \in 1..Len(f.packets) |-> PacketBytes(f, i)])
    \o (IF f.kind = "replay" THEN Sentinel ELSE <<>>)

PacketFiles ==
    { f \in [kind : {"replay", "pcap"}, big : BOOLEAN, packets : SeqUpTo(PacketTexts, MaxPackets)] :
        f.kind = "replay" => ~f.big }

---------------------------------------------------------------------------
(* SpecPacket: one packetized reader drained by a caller that owns the
   target string *)

InitPacket ==
    /\ aux \in PacketFiles
    /\ input = PacketFile(aux)
    /\ rd = IF aux.kind = "replay"
            THEN [kind |-> "replay", alive |-> TRUE, r |-> DogStatsDReplayReader_new(input)]
            ELSE [kind |-> "pcap", alive |-> TRUE, r |-> PcapDogStatsDReader_new(input)]
    /\ s = <<>>
    /\ hist = <<>>

\* Bytes the framer has taken from the file
FramerPos(reader) ==
    IF reader.kind = "replay" THEN Len(input) - Len(reader.r.buf) ELSE reader.r.pcap_reader.pos

PacketCall(o) ==
    [s_in |-> s, s_out |-> o.s, res |-> o.res, n |-> o.n,
     queued |-> Len(rd.r.current_messages), pos0 |-> FramerPos(rd),
     pos1 |-> FramerPos([rd EXCEPT !.r = o.r])]

\* String::clear between two calls
ClearLine ==
    /\ s # <<>>
    /\ s' = <<>>
    /\ UNCHANGED <<input, rd, hist, aux>>

ReplayPacketRead ==
    /\ rd.kind = "replay" /\ rd.alive /\ Len(hist) < MaxCalls
    /\ LET o == DogStatsDReplayReader_read_msg(rd.r, s) IN
       /\ rd' = [rd EXCEPT !.r = o.r, !.alive = (o.res # "Panic")]
       /\ s' = o.s
       /\ hist' = Append(hist, PacketCall(o))
    /\ UNCHANGED <<input, aux>>

PcapPacketRead ==
    /\ rd.kind = "pcap" /\ rd.alive /\ Len(hist) < MaxCalls
    /\ LET o == PcapDogStatsDReader_read_msg(input, rd.r, s) IN
       /\ rd' = [rd EXCEPT !.r = o.r]
       /\ s' = o.s
       /\ hist' = Append(hist, PacketCall(o))
    /\ UNCHANGED <<input, aux>>

NextPacket == ClearLine \/ ReplayPacketRead \/ PcapPacketRead

SpecPacket == InitPacket /\ [][NextPacket]_vars

---------------------------------------------------------------------------
(* C2 *)

\* Offset of the end of packet i in the file
PacketEnd(i) ==
    (IF aux.kind = "replay" THEN 8 ELSE 24)
    + Len(Concat([j \in 1..i |-> PacketBytes(aux, j)]))

\* Packets the framer has read
PacketsRead == Cardinality({ i \in 1..Len(aux.packets) : PacketEnd(i) <= FramerPos(rd) })

IsLineCall(h) == h.res = "Ok" /\ h.n = 1

LinesReturned ==
    LET calls == SelectSeq(hist, IsLineCall) IN [k \in 1..Len(calls) |-> calls[k].s_out]

---------------------------------------------------------------------------
(* SpecClassify: input_type_of on the 8 bytes peeked from a stream *)

\* Each of the first five bytes is drawn from the bytes the three magic
\* numbers and the version byte have at that place, and one other byte.
HeaderBytes ==
    << {212, 161, 40, 97}, {116, 195, 178, 181}, {208, 178, 195, 47}, {96, 161, 212, 253},
       {243, 242, 240, 3, 2}, {255, 0} >>

Headers ==
    { <<a, b, c, d, e, f, 0, 0>> : a \in HeaderBytes[1], b \in HeaderBytes[2], c \in HeaderBytes[3],
                                   d \in HeaderBytes[4], e \in HeaderBytes[5], f \in HeaderBytes[6] }

InitClassify ==
    /\ aux \in Headers
    /\ input = aux \o <<97, 10>>
    /\ rd = [pos |-> 0, cap |-> 8192]
    /\ s = <<>>
    /\ hist = <<>>

\* input_type_of(Bytes::copy_from_slice(header_bytes))
Classify ==
    /\ Len(hist) < MaxCalls
    /\ LET header_bytes == Take(fill_buf(input, rd), 8) IN
       hist' = Append(hist, [header |-> header_bytes, type |-> input_type_of(header_bytes),
                             pos |-> rd.pos])
    /\ UNCHANGED <<input, rd, s, aux>>

NextClassify == Classify

SpecClassify == InitClassify /\ [][NextClassify]_vars

---------------------------------------------------------------------------
(* C3 *)

\* C3: input_type_of answers Replay exactly when the first four bytes are
\* D4 74 D0 60 and the fifth is F3 (F3 XOR F0 = 3); otherwise Pcap exactly
\* when the first four bytes are A1 B2 C3 D4 or D4 C3 B2 A1; otherwise Utf8.
\* It has no error outcome, and the stream it peeked from stays at byte 0.
C3_Classification ==
    \A k \in 1..Len(hist) :
        LET h      == hist[k].header
            four   == SubSeq(h, 1, 4)
            replay == four = <<212, 116, 208, 96>> /\ h[5] = 243
            pcap   == four = <<161, 178, 195, 212>> \/ four = <<212, 195, 178, 161>>
        IN  /\ h = SubSeq(input, 1, 8)
            /\ hist[k].pos = 0
            /\ hist[k].type \in {"Replay", "Pcap", "Utf8"}
            /\ hist[k].type = "Replay" <=> replay
            /\ hist[k].type = "Pcap" <=> ~replay /\ pcap
            /\ hist[k].type = "Utf8" <=> ~replay /\ ~pcap

\* A replay magic with version 2 is classified as text, twice in a row.
C3_Witness ==
    /\ Len(hist) = 2
    /\ SubSeq(input, 1, 5) = <<212, 116, 208, 96, 242>>
    /\ hist[1].type = "Utf8" /\ hist[2].type = "Utf8"

---------------------------------------------------------------------------
(* SpecUtf8: one Utf8DogStatsDReader over a text stream, drained by a caller
   that owns the target string *)

\* lines of one text stream
MaxLines == 3

\* A line as written: its text, and the whitespace after it.
TextLines == [body : {<<>>, <<97>>, <<98, 58, 49>>}, pad : {<<>>, <<32>>}]

TextFiles ==
    { f \in [lines : SeqUpTo(TextLines, MaxLines), crlf : BOOLEAN, terminated : BOOLEAN] :
        /\ f.lines = <<>> => ~f.terminated /\ ~f.crlf
        /\ (f.lines # <<>> /\ ~f.terminated) => Last(f.lines).body \o Last(f.lines).pad # <<>> }

TextFile(f) ==
    JoinLines([i \in 1..Len(f.lines) |-> f.lines[i].body \o f.lines[i].pad], f.crlf, f.terminated)

InitUtf8 ==
    /\ aux \in TextFiles
    /\ input = TextFile(aux)
    /\ rd = Utf8DogStatsDReader_new(input)
    /\ s = <<>>
    /\ hist = <<>>

Utf8Read ==
    /\ Len(hist) < MaxCalls
    /\ LET o == Utf8DogStatsDReader_read_msg(input, rd, s) IN
       /\ rd' = o.r
       /\ s' = o.s
       /\ hist' = Append(hist, [s_in |-> s, s_out |-> o.s, res |-> o.res, n |-> o.n,
                                pos0 |-> rd.pos, pos1 |-> o.r.pos])
    /\ UNCHANGED <<input, aux>>

NextUtf8 == ClearLine \/ Utf8Read

SpecUtf8 == InitUtf8 /\ [][NextUtf8]_vars

---------------------------------------------------------------------------
(* C4 *)

HasText(l) == l.body # <<>>

\* The non-empty lines the stream was written from, without their padding
TextMessages == LET ls == SelectSeq(aux.lines, HasText) IN [i \in 1..Len(ls) |-> ls[i].body]

\* C4: at the first call that returns 0, the calls before it (each made
\* with an empty target string) have handed back every non-empty line of
\* the input, trimmed, in input order: empty and whitespace-only lines are
\* passed over and the lines after them are still returned.
C4_EmptyLinesSkipped ==
    \A k \in 1..Len(hist) :
        (/\ hist[k].n = 0
         /\ \A j \in 1..k : hist[j].s_in = <<>>
         /\ \A j \in 1..(k - 1) : hist[j].n = 1)
        => [j \in 1..(k - 1) |-> hist[j].s_out] = TextMessages

---------------------------------------------------------------------------
(* SpecOpen: a stream x and its Zstandard-compressed copy, each opened with
   DogStatsDReader::new and drained by a caller that clears the line before
   every read and stops at 0 or at an error *)

\* "abc:1|c" and "d:2|g"
OpenLines == { <<97, 98, 99, 58, 49, 124, 99>>, <<100, 58, 50, 124, 103>>, <<>> }

\* Streams that are no well-formed text, replay file or capture: captures
\* with link type LINUX_SLL (113) and with a cut file header, a replay file
\* of version 2, a Zstandard frame of text, such a frame cut short, and a
\* frame of five bytes.
OddInputs ==
    { PcapFileHeader(FALSE, 113), Take(PcapFileHeader(TRUE, DATALINK_ETHERNET), 12),
      DATADOG_HEADER \o <<242, 255, 0, 0>> \o Sentinel,
      ZstdEncode(<<97, 98, 99, 58, 49, 124, 99, 10>>),
      Take(ZstdEncode(<<97, 98, 99, 58, 49, 124, 99, 10>>), 12),
      ZstdEncode(<<100, 58, 50, 124, 103>>) }

\* A stream, and the line its first read_msg hands back (none: it returns 0)
\* where the stream's make-up tells.
OpenInputs ==
    { [bytes |-> JoinLines(ls, FALSE, TRUE), known |-> TRUE,
       first |-> IF ls # <<>> /\ Head(ls) # <<>> THEN <<Head(ls)>> ELSE <<>>]
        : ls \in SeqUpTo(OpenLines, 2) }
    \cup { [bytes |-> PacketFile(f), known |-> TRUE,
            first |-> IF f.packets # <<>> /\ f.packets[1].lines # <<>>
                      THEN <<f.packets[1].lines[1]>> ELSE <<>>]
            : f \in PacketFiles }
    \cup { [bytes |-> b, known |-> FALSE, first |-> <<>>] : b \in OddInputs }

\* Bytes the first read of the underlying stream yields at most
FirstReads == {5, 8192}

Sides == {"plain", "wrapped"}

InitOpen ==
    /\ aux \in [x : OpenInputs, first_read : FirstReads]
    /\ input = aux.x.bytes
    /\ rd = [side \in Sides |-> [state |-> "unopened", type |-> "none", data |-> <<>>,
                                 r |-> [pos |-> 0]]]
    /\ s = [side \in Sides |-> <<>>]
    /\ hist = [side \in Sides |-> <<>>]

StreamOf(side) == IF side = "plain" THEN input ELSE ZstdEncode(input)

\* DogStatsDReader::new(stream)
Open(side) ==
    /\ rd[side].state = "unopened"
    /\ LET o == DogStatsDReader_new(StreamOf(side), aux.first_read) IN
       /\ rd' = [rd EXCEPT ![side] = o.reader]
       /\ hist' = [hist EXCEPT ![side] = <<[out |-> o.out, peek |-> o.peek,
                                            repeek |-> o.repeek, start |-> o.start]>>]
    /\ UNCHANGED <<input, s, aux>>

\* line.clear(); reader.read_msg(&mut line), and the loop's exit
Drain(side) ==
    /\ rd[side].state = "open" /\ Len(hist[side]) < MaxCalls
    /\ LET o == DogStatsDReader_read_msg(rd[side], <<>>) IN
       /\ rd' = [rd EXCEPT ![side].r = o.r,
                           ![side].state = IF o.res = "Ok" /\ o.n # 0 THEN "open" ELSE "done"]
       /\ s' = [s EXCEPT ![side] = o.s]
       /\ hist' = [hist EXCEPT ![side] =
                      Append(@, [out |-> [op |-> "read_msg", res |-> o.res, kind |-> "",
                                          type |-> rd[side].type, n |-> o.n, line |-> o.s],
                                 peek |-> 0, repeek |-> 0, start |-> 0])]
    /\ UNCHANGED <<input, aux>>

NextOpen == \E side \in Sides : Open(side) \/ Drain(side)

SpecOpen == InitOpen /\ [][NextOpen]_vars

---------------------------------------------------------------------------
(* C5 *)

\* Calls made on both sides have the same outcome: the same result of new
\* (classification or failure), the same results and lines of read_msg.
SameOutcomes ==
    \A k \in 1..Len(hist["plain"]) :
        k <= Len(hist["wrapped"]) => hist["plain"][k].out = hist["wrapped"][k].out

\* C5 as stated: for every stream x, the compressed copy of x opens and
\* drains with the outcomes of x.
C5_ZstdTransparentForAll == SameOutcomes

\* C5, for streams that do not themselves begin with the Zstandard magic
\* number: the compressed copy of x opens and drains with the outcomes of x.
C5_ZstdTransparent ==
    (Len(input) >= 4 => SubSeq(input, 1, 4) # <<40, 181, 47, 253>>) => SameOutcomes

C5_Witness ==
    /\ input = <<100, 58, 50, 124, 103, 10, 97, 98, 99, 58, 49, 124, 99, 10>>
    /\ aux.first_read = 8192
    /\ Len(hist["plain"]) = 4 /\ Len(hist["wrapped"]) = 4
    /\ hist["wrapped"][1].out.type = "Utf8"
    /\ hist["wrapped"][2].out.line = <<100, 58, 50, 124, 103>>
    /\ hist["wrapped"][3].out.line = <<97, 98, 99, 58, 49, 124, 99>>
    /\ hist["wrapped"][4].out.n = 0

---------------------------------------------------------------------------
(* C6 *)

\* C6: new fails with Io(UnexpectedEof) and builds no reader when the first
\* peek, or the peek into the decompressed stream, holds fewer than 8 bytes;
\* when the peeks hold 8 bytes or more the framer is built over the
\* (decompressed) stream from byte 0, and the first read_msg hands back the
\* first line of the stream.
C6_ShortPeekFailsElseNothingConsumed ==
    \A side \in Sides :
        hist[side] # <<>> =>
        LET e         == hist[side][1]
            stream    == StreamOf(side)
            peek      == IF Len(stream) < aux.first_read THEN Len(stream) ELSE aux.first_read
            unwrapped == peek >= 8 /\ SubSeq(stream, 1, 4) = <<40, 181, 47, 253>>
            eof       == /\ e.out.res = "Io" /\ e.out.kind = "UnexpectedEof"
                         /\ rd[side].state = "failed" /\ Len(hist[side]) = 1
        IN  /\ e.peek = peek
            /\ peek < 8 => eof
            /\ (side = "wrapped" /\ peek >= 8) => unwrapped /\ e.repeek = Len(input)
            /\ (unwrapped /\ e.repeek >= 0 /\ e.repeek < 8) => eof
            /\ (peek >= 8 /\ (unwrapped => e.repeek >= 8)) =>
                /\ e.out.res \in {"Ok", "Panic"}
                /\ e.start = 0
                /\ (e.out.res = "Ok" /\ (side = "wrapped" \/ ~unwrapped)) => rd[side].data = input
                /\ (aux.x.known /\ Len(hist[side]) >= 2) =>
                    /\ hist[side][2].out.res = "Ok"
                    /\ hist[side][2].out.n = Len(aux.x.first)
                    /\ hist[side][2].out.n = 1 => hist[side][2].out.line = aux.x.first[1]

\* "d:2|g" and a line feed, six bytes: the plain stream fails at the first
\* peek, its compressed copy at the peek into the decompressed stream.
C6_Witness ==
    /\ input = <<100, 58, 50, 124, 103, 10>>
    /\ aux.first_read = 8192
    /\ hist["plain"] # <<>> /\ hist["wrapped"] # <<>>
    /\ hist["plain"][1].peek = 6 /\ hist["plain"][1].out.kind = "UnexpectedEof"
    /\ hist["wrapped"][1].peek = 15 /\ hist["wrapped"][1].repeek = 6
    /\ hist["wrapped"][1].out.kind = "UnexpectedEof"

---------------------------------------------------------------------------
(* C7 *)

\* C7: new ends in a value, Ok or Err: when the framer cannot be built the
\* caller gets a DogStatsDReaderError, and the process does not panic.
C7_ConstructionNeverAborts ==
    \A side \in Sides : hist[side] # <<>> => hist[side][1].out.res # "Panic"

---------------------------------------------------------------------------
(* SpecPcap: captures of both link types with records that are and are not
   IPv4/UDP, read through PcapDogStatsDReader::read_msg and, record by
   record, through read_packet and get_udp_payload_from_packet *)

\* What a record holds: a UDP datagram with payload "a", a TCP segment with
\* payload "x", an ARP request, the first 10 bytes of a frame.
FrameKinds == {"udp", "tcp", "arp", "cut"}

FrameBytes(datalink, kind) ==
    LET ethertype == IF kind = "arp" THEN 2054 ELSE ETHERTYPE_IPV4
        body == IF kind = "arp" THEN <<0, 1, 8, 0, 6, 4, 0, 1>> \o Zeros(20)
                ELSE IF kind = "tcp" THEN Ipv4Datagram(IPPROTO_TCP, TcpSegment(<<120>>))
                ELSE Ipv4Datagram(IPPROTO_UDP, UdpDatagram(<<97>>))
        frame == IF datalink = DATALINK_ETHERNET THEN EthernetFrame(ethertype, body)
                 ELSE Sll2Frame(ethertype, body)
    IN  IF kind = "cut" THEN Take(frame, 10) ELSE frame

Captures ==
    [datalink : {DATALINK_ETHERNET, DATALINK_LINUX_SLL2}, big : BOOLEAN,
     frames : SeqUpTo(FrameKinds, MaxPackets)]

CaptureRecord(c, i) == PcapRecord(c.big, FrameBytes(c.datalink, c.frames[i]))

CaptureFile(c) ==
    PcapFileHeader(c.big, c.datalink) \o Concat([i \in 1..Len(c.frames) |-> CaptureRecord(c, i)])

InitPcap ==
    /\ aux \in Captures
    /\ input = CaptureFile(aux)
    /\ rd = [alive |-> TRUE, m |-> PcapDogStatsDReader_new(input), x |-> PcapReader_new(input)]
    /\ s = <<>>
    /\ hist = <<>>

\* The record that starts at offset pos of the file (0: none does)
RecordAt(pos) ==
    LET before == { i \in 0..Len(aux.frames) :
                      24 + Len(Concat([j \in 1..i |-> CaptureRecord(aux, j)])) = pos }
    IN  IF before = {} \/ pos >= Len(input) THEN 0 ELSE 1 + CHOOSE i \in before : TRUE

\* reader.read_msg(&mut s) on an empty String
PcapRead ==
    /\ rd.alive /\ Len(hist) < MaxCalls
    /\ LET o == PcapDogStatsDReader_read_msg(input, rd.m, <<>>) IN
       /\ rd' = [rd EXCEPT !.m = o.r]
       /\ s' = o.s
       /\ hist' = Append(hist, [op |-> "read_msg", res |-> o.res, n |-> o.n, line |-> o.s,
                                frame |-> RecordAt(rd.m.pcap_reader.pos)])
    /\ UNCHANGED <<input, aux>>

\* reader.read_packet() and get_udp_payload_from_packet(packet, header)
PcapExtract ==
    /\ rd.alive /\ Len(hist) < MaxCalls
    /\ LET p == PcapReader_read_packet(input, rd.x)
           g == IF p.res = "Some" THEN get_udp_payload_from_packet(p.data, rd.x.datalink)
                ELSE [res |-> IF p.res = "None" THEN "Eof" ELSE "Pcap", bytes |-> <<>>]
       IN
       /\ rd' = [rd EXCEPT !.x = p.r, !.alive = (g.res # "Panic")]
       /\ hist' = Append(hist, [op |-> "extract", res |-> g.res, n |-> 0, line |-> g.bytes,
                                frame |-> RecordAt(rd.x.pos)])
    /\ UNCHANGED <<input, s, aux>>

NextPcap == PcapRead \/ PcapExtract

SpecPcap == InitPcap /\ [][NextPcap]_vars

---------------------------------------------------------------------------
(* C8 *)

\* C8: a record that is not an IPv4/UDP datagram is skipped.  The call that
\* meets it returns normally and emits none of its bytes (the extraction
\* gives Ok(None); read_msg gives Ok and no line but a datagram's "a"), and
\* the datagrams in later records are still handed back, in Ethernet and in
\* SLL2 captures.
C8_NonUdpRecordsSkipped ==
    \A k \in 1..Len(hist) :
        LET e == hist[k] IN
        e.frame > 0 =>
            IF aux.frames[e.frame] # "udp"
            THEN IF e.op = "extract" THEN e.res = "None"
                 ELSE e.res = "Ok" /\ (e.n = 1 => e.line = <<97>>)
            ELSE (\E j \in 1..(e.frame - 1) : aux.frames[j] # "udp")
                 => /\ e.line = <<97>>
                    /\ IF e.op = "extract" THEN e.res = "Some" ELSE e.res = "Ok" /\ e.n = 1


---------------------------------------------------------------------------
(* SpecParse: DogStatsDMsg::new on one line.  aux keeps how the line was
   built: its form, the line before the trailing white space was added,
   the declared lengths of an event and the place right after "}:", its
   optional field segments, and whether the declared lengths are those of
   the title and of the text. *)

\* "|<segment>" for each segment
JoinFields(segs) == Concat([i \in 1..Len(segs) |-> <<124>> \o segs[i]])

\* "18446744073709551615" (usize::MAX) and "18446744073709551588"
UsizeMaxDigits ==
    <<49, 56, 52, 52, 54, 55, 52, 52, 48, 55, 51, 55, 48, 57, 53, 53, 49, 54, 49, 53>>

NearMaxDigits ==
    <<49, 56, 52, 52, 54, 55, 52, 52, 48, 55, 51, 55, 48, 57, 53, 53, 49, 53, 56, 56>>

\* Declared lengths: the digits and the number, 10^9 for one past any line
DeclaredLengths ==
    { [d |-> <<48 + n>>, v |-> n] : n \in 0..3 }
        \cup { [d |-> UsizeMaxDigits, v |-> 1000000000], [d |-> NearMaxDigits, v |-> 1000000000] }

\* "", " ", "\n"
Pads == { <<>>, <<32>>, <<10>> }

\* "_e{<tl>,<xl>}:<title>|<text>" and the fields, each after a '|': none,
\* "p:low", "#t1", "d", "x", "", "d" and "x", "p:low" and ""
EventLines ==
    { [form |-> "event", tl |-> tl.v, xl |-> xl.v, title_at |-> 3 + Len(tl.d) + 1 + Len(xl.d) + 2,
       fields |-> fields, wf |-> (tl.v = Len(title) /\ xl.v = Len(text)),
       body |-> <<95, 101, 123>> \o tl.d \o <<44>> \o xl.d \o <<125, 58>> \o title
                    \o <<124>> \o text \o JoinFields(fields)] :
        tl \in DeclaredLengths, xl \in { l \in DeclaredLengths : l.d # NearMaxDigits /\ l.v # 3 },
        title \in { <<97>>, <<97, 98>>, <<195, 169>> },
        text \in { <<>>, <<99>>, <<99, 100>> },
        fields \in { <<>>, << <<112, 58, 108, 111, 119>> >>, << <<35, 116, 49>> >>, << <<100>> >>,
                     << <<120>> >>, << <<>> >>, << <<100>>, <<120>> >>,
                     << <<112, 58, 108, 111, 119>>, <<>> >> } }

\* "<name>:<values>|<type><tail>"
MetricLines ==
    { [form |-> "metric", tl |-> 0, xl |-> 0, title_at |-> 0, fields |-> <<>>, wf |-> TRUE,
       body |-> name \o <<58>> \o values \o type \o tail] :
        name \in { <<97>>, <<84>> },
        values \in { <<49>>, <<49, 46, 53>>, <<49, 58, 50>>, <<120>>, <<49, 101>> },
        type \in { <<124, 99>>, <<124, 109, 115>>, <<124, 122, 122, 122>>, <<124, 120>>, <<>> },
        tail \in { <<>>, <<124, 35, 116, 49, 44, 116, 50>>, <<124, 64, 48, 46, 53>>,
                   <<124, 99, 58, 99, 105>> } }

\* "_sc|n|<status>" and the fields, each after a '|': none, "m:x", "#t1",
\* "d", "x", "", "m:x" and "", "d" and "x"
ServiceCheckLines ==
    { [form |-> "servicecheck", tl |-> 0, xl |-> 0, title_at |-> 0,
       fields |-> fields, wf |-> (status # <<57>>),
       body |-> <<95, 115, 99, 124, 110, 124>> \o status \o JoinFields(fields)] :
        status \in { <<48>>, <<51>>, <<57>> },
        fields \in { <<>>, << <<109, 58, 120>> >>, << <<35, 116, 49>> >>, << <<100>> >>,
                     << <<120>> >>, << <<>> >>, << <<109, 58, 120>>, <<>> >>,
                     << <<100>>, <<120>> >> } }

\* "_e", "_e}{", "_e{1}:a|c", "_e{x,1}:a|c", "_e{1,1}:a|cd", "_sc", "_scn|n|0", "a"
OtherLines ==
    { [form |-> "other", tl |-> 0, xl |-> 0, title_at |-> 0, fields |-> <<>>, wf |-> FALSE,
       body |-> b] :
        b \in { <<95, 101>>, <<95, 101, 125, 123>>,
                <<95, 101, 123, 49, 125, 58, 97, 124, 99>>,
                <<95, 101, 123, 120, 44, 49, 125, 58, 97, 124, 99>>,
                <<95, 101, 123, 49, 44, 49, 125, 58, 97, 124, 99, 100>>,
                <<95, 115, 99>>, <<95, 115, 99, 110, 124, 110, 124, 48>>, <<97>> } }

ParseInputs == EventLines \cup MetricLines \cup ServiceCheckLines \cup OtherLines

InitParse ==
    /\ \E l \in ParseInputs, pad \in Pads, checks \in BOOLEAN :
          /\ input = l.body \o pad
          /\ aux = [form |-> l.form, tl |-> l.tl, xl |-> l.xl, title_at |-> l.title_at,
                    fields |-> l.fields, wf |-> l.wf, body |-> l.body, checks |-> checks]
    /\ rd = NoReader
    /\ s = <<>>
    /\ hist = <<>>

\* DogStatsDMsg::new(input)
Parse ==
    /\ hist = <<>>
    /\ hist' = <<DogStatsDMsg_new(input, aux.checks)>>
    /\ UNCHANGED <<input, rd, s, aux>>

NextParse == Parse

SpecParse == InitParse /\ [][NextParse]_vars

Parsed == hist # <<>> /\ hist[1].res = "Ok"

\* C9: for every line L that DogStatsDMsg::new parses successfully, whatever
\* its kind (metric, event or service check), the raw field of the result
\* equals L.trim_end().
C9_RawIsTrimmedLine ==
    Parsed => hist[1].raw_msg = TrimEnd(input)

\* C10: for every event line parsed successfully the byte length of title is
\* the declared title length and that of text the declared text length,
\* title being the bytes right after "}:" and text the bytes one separator
\* after the title; if a declared range runs past the end of the line the
\* result is a ParseError of kind Event.
C10_EventLengths ==
    (aux.form = "event" /\ hist # <<>>) =>
        /\ hist[1].res = "Ok" =>
              /\ Len(hist[1].title) = aux.tl
              /\ Len(hist[1].text) = aux.xl
              /\ hist[1].title = SubSeq(input, aux.title_at + 1, aux.title_at + aux.tl)
              /\ hist[1].text = SubSeq(input, aux.title_at + aux.tl + 2,
                                       aux.title_at + aux.tl + 1 + aux.xl)
        /\ (\/ aux.title_at + aux.tl > Len(input)
            \/ aux.title_at + aux.tl + 1 + aux.xl > Len(input)) =>
              (hist[1].res = "Err" /\ hist[1].kind = "Event")


\* The first bytes of the optional fields of an event and of a service check
KnownPrefixes(form) ==
    IF form = "event" THEN DOMAIN EventFieldNames \cup {35}
    ELSE DOMAIN ServiceCheckFieldNames \cup {35}

\* The line holds a field segment that begins with no known prefix
HasOtherField ==
    /\ aux.form \in {"event", "servicecheck"}
    /\ aux.wf
    /\ \E i \in 1..Len(aux.fields) :
          aux.fields[i] = <<>> \/ aux.fields[i][1] \notin KnownPrefixes(aux.form)

\* C14: an event or service check line with a field segment that begins with
\* no known prefix (event: d, h, p, t, k, s, #; service check: d, h, m, #),
\* an empty segment included, is rejected with a ParseError of its kind and
\* is never returned as a parsed message.
C14_OtherFieldRejected ==
    (hist # <<>> /\ HasOtherField) =>
        /\ hist[1].res = "Err"
        /\ hist[1].kind = (IF aux.form = "event" THEN "Event" ELSE "ServiceCheck")

\* C15: DogStatsDMsg::new returns a parsed message or a ParseError for every
\* line, with no out-of-range index or slice, whatever the braces of an
\* event header hold and however short an optional field segment is.
C15_NeverPanics ==
    hist # <<>> => hist[1].res \in {"Ok", "Err"}

---------------------------------------------------------------------------
(* SpecMetric: parse_metric on a metric line and on a variant of it.  aux
   keeps the name, values and type, the optional segments in the order of
   the first line, and how and in which order the second line was built. *)

\* "#t2,t1", "@0.5", "T1", "c:ci"
OptionalSegments ==
    { <<35, 116, 50, 44, 116, 49>>, <<64, 48, 46, 53>>, <<84, 49>>, <<99, 58, 99, 105>> }

\* "x", "", "zz"
UnknownSegments == { <<120>>, <<>>, <<122, 122>> }

\* The sequences that hold each element of S once
RECURSIVE Orders(_)
Orders(S) ==
    IF S = {} THEN { <<>> }
    ELSE UNION { { <<x>> \o o : o \in Orders(S \ {x}) } : x \in S }

\* "<name>:<values>|<type>" and "|<segment>" for each segment
MetricLine(m, segs) ==
    m.name \o <<58>> \o m.values \o <<124>> \o m.type
        \o Concat([i \in 1..Len(segs) |-> <<124>> \o segs[i]])

\* Names "a", "#a", "@a", "T", "c"; values "1", "1:2"; types "c", "ms"
InitMetric ==
    /\ \E name \in { <<97>>, <<35, 97>>, <<64, 97>>, <<84>>, <<99>> },
          values \in { <<49>>, <<49, 58, 50>> },
          type \in { <<99>>, <<109, 115>> },
          segs \in SUBSET OptionalSegments :
          \E order \in Orders(segs) :
              aux = [name |-> name, values |-> values, type |-> type, order |-> order,
                     variant |-> "none", second |-> <<>>]
    /\ input = <<>>
    /\ rd = NoReader
    /\ s = <<>>
    /\ hist = <<>>

\* DogStatsDMsg::new on the line
ParseLine ==
    /\ hist = <<>>
    /\ input' = MetricLine(aux, aux.order)
    /\ hist' = <<DogStatsDMsg_new(input', FALSE)>>
    /\ UNCHANGED <<rd, s, aux>>

\* DogStatsDMsg::new on the line with its optional segments in another order
ParsePermuted ==
    /\ Len(hist) = 1
    /\ \E o \in Orders({ aux.order[i] : i \in 1..Len(aux.order) }) :
          /\ aux' = [aux EXCEPT !.variant = "permuted", !.second = o]
          /\ input' = MetricLine(aux, o)
    /\ hist' = Append(hist, DogStatsDMsg_new(input', FALSE))
    /\ UNCHANGED <<rd, s>>

\* DogStatsDMsg::new on the line with an unknown segment put in after the type
ParseWithUnknown ==
    /\ Len(hist) = 1
    /\ \E u \in UnknownSegments, k \in 0..Len(aux.order) :
          /\ aux' = [aux EXCEPT !.variant = "unknown",
                                !.second = SubSeq(aux.order, 1, k) \o <<u>>
                                               \o SubSeq(aux.order, k + 1, Len(aux.order))]
          /\ input' = MetricLine(aux, aux'.second)
    /\ hist' = Append(hist, DogStatsDMsg_new(input', FALSE))
    /\ UNCHANGED <<rd, s>>

NextMetric == ParseLine \/ ParsePermuted \/ ParseWithUnknown

SpecMetric == InitMetric /\ [][NextMetric]_vars

\* The fields of a metric that C12 and C13 compare
MetricFields(m) ==
    <<m.res, m.name, m.values, m.metric_type, m.tags, m.sample_rate, m.timestamp,
      m.container_id>>

\* C11: for every line "<name>:<values>|<type>" with no further segment the
\* result of parse_metric has empty tags and no sample rate, timestamp or
\* container id, whatever the metric name.
C11_NoSegmentsNoOptionals ==
    (Len(hist) = 1 /\ aux.order = <<>> /\ hist[1].res = "Ok") =>
        /\ hist[1].tags = <<>>
        /\ hist[1].sample_rate = <<>>
        /\ hist[1].timestamp = <<>>
        /\ hist[1].container_id = <<>>

\* C12: inserting an unknown segment after the type segment of a valid
\* metric line never causes an error and leaves name, values, metric_type,
\* tags, sample_rate, timestamp and container_id unchanged.
C12_UnknownSegmentIgnored ==
    (Len(hist) = 2 /\ aux.variant = "unknown" /\ hist[1].res = "Ok") =>
        (hist[2].res = "Ok" /\ MetricFields(hist[2]) = MetricFields(hist[1]))

C12_Witness ==
    /\ Len(hist) = 2 /\ aux.variant = "unknown" /\ hist[1].res = "Ok"
    /\ Len(aux.second) = 5 /\ aux.second[1] = <<>>
    /\ aux.name = <<97>>
    /\ hist[2].tags = << <<116, 50>>, <<116, 49>> >>
    /\ hist[2].container_id = << <<99, 105>> >>

\* C13: with at most one optional segment of each kind, every order of the
\* optional segments parses to the same name, values, metric_type, tags (in
\* the same order), sample_rate, timestamp and container_id.
C13_SegmentOrderIrrelevant ==
    (Len(hist) = 2 /\ aux.variant = "permuted") =>
        MetricFields(hist[2]) = MetricFields(hist[1])

C13_Witness ==
    /\ Len(hist) = 2 /\ aux.variant = "permuted" /\ hist[1].res = "Ok"
    /\ Len(aux.order) = 4 /\ aux.second[1] = aux.order[4] /\ aux.second[4] = aux.order[1]
    /\ aux.name = <<97>>
    /\ hist[2].tags = << <<116, 50>>, <<116, 49>> >>
    /\ hist[2].sample_rate = << <<48, 46, 53>> >>
    /\ hist[2].timestamp = << <<49>> >>


---------------------------------------------------------------------------
(* SpecAnalyze: analyze_msgs over a reader of text lines.  aux is the list
   of the lines of the input as they were built; hist holds msg_stats
   before the loop and after each turn of it, so that turn i reads line i. *)

\* Lines "<name>:1|g" with the name "a" and tags none, "#t1", "#t1,t2",
\* "#t2,t1", "#t1,t1", and the name "b" and tags none, "#t1"; an event, a service check, a line that does not
\* parse ("x"), and a line on which the parser panics ("_sc|n|0|d")
AnalyzeLines ==
    { [form |-> "metric", name |-> m[1], tags |-> m[2],
       text |-> m[1] \o <<58, 49, 124, 103>>
                    \o (IF m[2] = <<>> THEN <<>>
                        ELSE <<124, 35>> \o m[2][1]
                                 \o Concat([i \in 1..Len(m[2]) - 1 |-> <<44>> \o m[2][i + 1]]))] :
        m \in { p \in { <<97>>, <<98>> }
                        \X { <<>>, << <<116, 49>> >>, << <<116, 49>>, <<116, 50>> >>,
                             << <<116, 50>>, <<116, 49>> >>, << <<116, 49>>, <<116, 49>> >> } :
                    p[1] = <<97>> \/ Len(p[2]) <= 1 } }
    \cup { [form |-> f[1], name |-> <<>>, tags |-> <<>>, text |-> f[2]] :
             f \in { <<"event", <<95, 101, 123, 49, 44, 49, 125, 58, 97, 124, 99>> >>,
                     <<"servicecheck", <<95, 115, 99, 124, 110, 124, 48>> >>,
                     <<"invalid", <<120>> >>,
                     <<"panics", <<95, 115, 99, 124, 110, 124, 48, 124, 100>> >> } }

\* DogStatsDReader::new(&payload[..]).unwrap(), then the start of analyze_msgs
InitAnalyze ==
    /\ aux \in SeqUpTo(AnalyzeLines, MaxLines)
    /\ input = JoinLines([i \in 1..Len(aux) |-> aux[i].text], FALSE, TRUE)
    /\ DogStatsDReader_new(input, 8192).out.res = "Ok"
    /\ rd = DogStatsDReader_new(input, 8192).reader
    /\ s = <<>>
    /\ hist = <<NewBatchStats>>

\* One turn of the loop of analyze_msgs: line.clear(), read_msg,
\* DogStatsDMsg::new, the counters; and the end of the call when the loop
\* is left
AnalyzeTurn ==
    /\ Last(hist).pc = "loop"
    /\ LET o == DogStatsDReader_read_msg(rd, <<>>) IN
       /\ rd' = [rd EXCEPT !.r = o.r]
       /\ s' = o.s
       /\ \E checks \in BOOLEAN :
             hist' = Append(hist, analyze_turn(Last(hist), o, DogStatsDMsg_new(o.s, checks)))
    /\ UNCHANGED <<input, aux>>

NextAnalyze == AnalyzeTurn

SpecAnalyze == InitAnalyze /\ [][NextAnalyze]_vars

\* C16: after analyze_msgs has drained any input, num_msgs equals
\* kind[Metric].total + kind[Event].total + kind[ServiceCheck].total, also
\* when the input holds lines that fail to parse.
C16_NumMsgsIsSumOfKinds ==
    Last(hist).pc = "returned" =>
        Last(hist).num_msgs = Last(hist).Metric + Last(hist).Event + Last(hist).ServiceCheck

\* Turn i of the loop took line i as a metric
MetricTurn(i) ==
    i \in 1..Len(aux) /\ Len(hist) > i /\ aux[i].form = "metric" /\ hist[i + 1].Metric > hist[i].Metric

SameTagSet(i, j) ==
    { aux[i].tags[k] : k \in 1..Len(aux[i].tags) } = { aux[j].tags[k] : k \in 1..Len(aux[j].tags) }

\* b holds the elements of a, each as often as a does
IsPermutation(a, b) ==
    /\ Len(a) = Len(b)
    /\ \A x \in { a[k] : k \in 1..Len(a) } :
          Cardinality({ k \in 1..Len(a) : a[k] = x }) = Cardinality({ k \in 1..Len(b) : b[k] = x })

\* C17: a metric name with tags and the same name with a permutation of the
\* tags have the same context, lines that differ in name or in the set of
\* their tags have distinct contexts, and an input whose metric lines differ
\* only in the order of their tags yields num_contexts = 1.
C17_ContextIgnoresTagOrder ==
    /\ \A i, j \in 1..Len(aux) :
          (MetricTurn(i) /\ MetricTurn(j)) =>
             /\ (aux[i].name = aux[j].name /\ IsPermutation(aux[i].tags, aux[j].tags))
                   => hist[i + 1].last_context = hist[j + 1].last_context
             /\ (aux[i].name # aux[j].name \/ ~SameTagSet(i, j))
                   => hist[i + 1].last_context # hist[j + 1].last_context
    /\ ( /\ Last(hist).pc = "returned"
         /\ Last(hist).Metric > 0
         /\ \A i, j \in 1..Len(aux) :
               (MetricTurn(i) /\ MetricTurn(j)) =>
                  (aux[i].name = aux[j].name /\ IsPermutation(aux[i].tags, aux[j].tags)) )
       => Last(hist).num_contexts = 1

C17_Witness ==
    /\ Last(hist).pc = "returned"
    /\ Len(aux) = 3
    /\ \A i \in 1..3 : MetricTurn(i) /\ aux[i].name = <<97>>
    /\ aux[1].tags = << <<116, 49>>, <<116, 50>> >>
    /\ aux[2].tags = << <<116, 50>>, <<116, 49>> >>
    /\ aux[3].tags = << <<116, 49>> >>
    /\ Last(hist).num_contexts = 2

\* name and the tags in ascending order, each as often as the line has it
RECURSIVE SortedTags(_)
SortedTags(tags) ==
    LET least == CHOOSE k \in 1..Len(tags) :
                     \A l \in 1..Len(tags) : tags[k] = tags[l] \/ StrLess(tags[k], tags[l])
    IN  IF tags = <<>> THEN <<>>
        ELSE <<tags[least]>>
                 \o SortedTags(SubSeq(tags, 1, least - 1) \o SubSeq(tags, least + 1, Len(tags)))

\* C18: the context is built from the name and the sorted sequence of tags
\* with no deduplication: lines with the same name whose tag lists differ
\* only in how often a tag is repeated have different contexts, and
\* num_contexts is the number of distinct (name, sorted tag sequence) pairs.
C18_ContextKeepsRepeatedTags ==
    Last(hist).pc = "returned" =>
        Last(hist).num_contexts =
            Cardinality({ <<aux[i].name, SortedTags(aux[i].tags)>> :
                              i \in { k \in 1..Len(aux) : MetricTurn(k) } })


---------------------------------------------------------------------------
(* SpecWeights: get_metric_weights and get_kind_weights on the kind map of
   a DogStatsDBatchStats.  aux is the map: the count of each metric type,
   whose sum is the metric total, and the event and service check totals. *)

InitWeights ==
    /\ \E c \in {0, 1, 2, 127, 128, 200, 254, 255, 256, 400},
          g \in {0, 1, 128, 200, 256}, d \in {0, 200},
          o \in [{"Set", "Timer", "Histogram"} -> {0, 1}],
          e \in {0, 1, 100, 300}, sc \in {0, 2, 255} :
          aux = [metric_map |-> [ty \in MetricTypes |->
                                    IF ty = "Count" THEN c ELSE IF ty = "Gauge" THEN g
                                    ELSE IF ty = "Distribution" THEN d ELSE o[ty]],
                 Metric |-> c + g + d + o["Set"] + o["Timer"] + o["Histogram"],
                 Event |-> e, ServiceCheck |-> sc]
    /\ input = <<>>
    /\ rd = NoReader
    /\ s = <<>>
    /\ hist = <<>>

\* self.get_kind_weights()
GetKindWeights ==
    /\ \A i \in 1..Len(hist) : hist[i].op # "kind"
    /\ hist' = Append(hist, [op |-> "kind", default |-> FALSE,
                             w |-> get_kind_weights(aux.Metric, aux.Event, aux.ServiceCheck)])
    /\ UNCHANGED <<input, rd, s, aux>>

\* self.get_metric_weights()
GetMetricWeights ==
    /\ \A i \in 1..Len(hist) : hist[i].op # "metric"
    /\ hist' = Append(hist, [op |-> "metric"] @@ get_metric_weights(aux.Metric, aux.metric_map))
    /\ UNCHANGED <<input, rd, s, aux>>

NextWeights == GetKindWeights \/ GetMetricWeights

SpecWeights == InitWeights /\ [][NextWeights]_vars

\* round(count * 255 / sum), halves rounded up
ExactRound(count, sum) == (2 * count * 255 + sum) \div (2 * sum)

C20_KindWeights ==
    \A i \in 1..Len(hist) :
        hist[i].op = "kind" =>
            LET w == hist[i].w
                sum == aux.Metric + aux.Event + aux.ServiceCheck
            IN  IF sum < 256
                THEN w = [Metric |-> aux.Metric, Event |-> aux.Event,
                          ServiceCheck |-> aux.ServiceCheck]
                ELSE w = [Metric |-> ExactRound(aux.Metric, sum),
                          Event |-> ExactRound(aux.Event, sum),
                          ServiceCheck |-> ExactRound(aux.ServiceCheck, sum)]

---------------------------------------------------------------------------
(* SpecPayload: to_lading_payload_config on the counters that analyze_msgs
   leaves in a DogStatsDBatchStats.  aux is the stats: num_msgs messages, of
   which Metric are metrics (all counts), Event are events and the rest did
   not parse, and num_msgs_with_multivalue of the metrics hold several
   values. *)

MsgCounts == {0, 1, 2, 3, 4, 7, 10, 255, 1000}

InitPayload ==
    /\ \E n \in MsgCounts, k \in MsgCounts, mv \in MsgCounts, ev \in {0, 1} :
          /\ mv <= k /\ k + ev <= n
          /\ aux = [num_msgs |-> n, num_msgs_with_multivalue |-> mv,
                    Metric |-> k, Event |-> ev, ServiceCheck |-> 0,
                    metric_map |-> [ty \in MetricTypes |-> IF ty = "Count" THEN k ELSE 0]]
    /\ input = <<>>
    /\ rd = NoReader
    /\ s = <<>>
    /\ hist = <<>>

\* stats.to_lading_payload_config()
ToLadingPayloadConfig ==
    /\ hist = <<>>
    /\ \E valid \in BOOLEAN : hist' = <<to_lading_payload_config(aux, valid)>>
    /\ UNCHANGED <<input, rd, s, aux>>

NextPayload == ToLadingPayloadConfig

SpecPayload == InitPayload /\ [][NextPayload]_vars

\* C21: to_lading_payload_config sets multivalue_pack_probability to
\* num_msgs_with_multivalue / num_msgs, and to 0 when num_msgs is 0; for
\* every stats the result is a number of [0, 1] and the call returns a
\* configuration.
C21_PackProbability ==
    \A i \in 1..Len(hist) :
        /\ hist[i].res = "Ok"
        /\ F32InUnit(hist[i].multivalue_pack_probability)
        /\ aux.num_msgs = 0 => hist[i].multivalue_pack_probability.m = 0
        /\ aux.num_msgs > 0 =>
              hist[i].multivalue_pack_probability
                  = F32Div(u32_as_f32(aux.num_msgs_with_multivalue), u32_as_f32(aux.num_msgs))

---------------------------------------------------------------------------
(* SpecGenerator: a DogStatsDReader over a text stream, a replay file or a
   capture, its analytics taken as analyze_msgs takes them, and the
   generator configuration projected from them.  aux is the running
   Analytics of the reader. *)

InitGenerator ==
    /\ \E x \in OpenInputs :
          /\ x.known
          /\ DogStatsDReader_new(x.bytes, 8192).out.res = "Ok"
          /\ input = x.bytes
          /\ rd = DogStatsDReader_new(x.bytes, 8192).reader
    /\ \E b \in {0, 1000}, l \in {0, 1, 4} :
          aux = [Analytics_new("Udp") EXCEPT !.total_bytes = b,
                                              !.latest_timestamp = [secs |-> l \div 2,
                                                                    nanos |-> (l % 2) * 500000000]]
    /\ s = <<>>
    /\ hist = <<>>

\* msg_stats.reader_analytics = reader.get_analytics().expect(..)
GetAnalytics ==
    /\ hist = <<>>
    /\ hist' = <<[op |-> "get_analytics",
                  reader_analytics |-> DogStatsDReader_get_analytics(rd, aux)]>>
    /\ UNCHANGED <<input, rd, s, aux>>

\* msg_stats.to_lading_generator_config(variant)
ToLadingGeneratorConfig ==
    /\ Len(hist) = 1
    /\ hist' = Append(hist, [op |-> "generator", reader_analytics |-> hist[1].reader_analytics]
                                @@ to_lading_generator_config(hist[1].reader_analytics))
    /\ UNCHANGED <<input, rd, s, aux>>

NextGenerator == GetAnalytics \/ ToLadingGeneratorConfig

SpecGenerator == InitGenerator /\ [][NextGenerator]_vars

\* C22: get_analytics returns None exactly for the raw-text reader and a
\* snapshot for Replay and Pcap; to_lading_generator_config returns
\* NotEnoughInfo exactly when reader_analytics is None, and otherwise
\* succeeds with the generator chosen by transport_type (Udp: the UDP
\* generator, UnixDatagram: the Unix-datagram generator).
C22_GeneratorNeedsAnalytics ==
    /\ Len(hist) >= 1 => (hist[1].reader_analytics = <<>> <=> rd.type = "Utf8")
    /\ Len(hist) = 2 =>
          /\ hist[2].res = "NotEnoughInfo" <=> hist[1].reader_analytics = <<>>
          /\ hist[1].reader_analytics # <<>> =>
                /\ hist[2].res = "Ok"
                /\ hist[2].generator = hist[1].reader_analytics[1].transport_type
                /\ hist[2].generator = IF rd.type = "Replay" THEN "UnixDatagram" ELSE "Udp"

C22_Witness ==
    /\ Len(hist) = 2
    /\ rd.type = "Replay"
    /\ hist[2].res = "Ok" /\ hist[2].generator = "UnixDatagram"

---------------------------------------------------------------------------
(* C23 *)

\* Packets of the file that end at or before offset pos
PacketsUpTo(pos) == Cardinality({ i \in 1..Len(aux.packets) : PacketEnd(i) <= pos })

\* C23: a packet with an empty payload does not end the stream: read_msg
\* returns 0 only when the framer has no packet left, and a caller that
\* clears the line before every call has then been handed the lines of
\* every packet of the file.
C23_EmptyPacketSkipped ==
    \A k \in 1..Len(hist) :
        (hist[k].res = "Ok" /\ hist[k].n = 0) =>
            /\ PacketsUpTo(hist[k].pos1) = Len(aux.packets)
            /\ (\A j \in 1..k : hist[j].s_in = <<>>) =>
                  LET calls == SelectSeq(SubSeq(hist, 1, k), IsLineCall) IN
                  [j \in 1..Len(calls) |-> calls[j].s_out]
                      = Concat([i \in 1..Len(aux.packets) |-> aux.packets[i].lines])

---------------------------------------------------------------------------
(* C24 *)

\* C24: every string handed back with result 1 (into an empty target) is a
\* non-empty line without leading or trailing white space; empty pieces of
\* a payload are never returned as messages.
C24_LinesTrimmedNonEmpty ==
    \A k \in 1..Len(hist) :
        (IsLineCall(hist[k]) /\ hist[k].s_in = <<>>) =>
            /\ hist[k].s_out # <<>>
            /\ TrimEnd(hist[k].s_out) = hist[k].s_out
            /\ TrimStart(hist[k].s_out) = hist[k].s_out

---------------------------------------------------------------------------
(* SpecDrain: analyze_msgs or print_msgs draining a DogStatsDReader over a
   text stream, a replay file or a capture, streams with a container error
   among them.  aux is the caller; hist holds, for each turn of its loop,
   the result of read_msg and the caller's state after the turn. *)

\* "a:1|g", "b:1|c" and a line that is not UTF-8
DrainLines == { <<97, 58, 49, 124, 103>>, <<98, 58, 49, 124, 99>>, <<255, 58, 49, 124, 99>> }

DrainInputs ==
    { JoinLines(ls, FALSE, TRUE) : ls \in SeqUpTo(DrainLines, MaxLines) }
    \cup { ReplayFile(f) : f \in ReplayFiles }
    \cup { CaptureFile(c) : c \in Captures }

InitDrain ==
    /\ aux \in {"analyze_msgs", "print_msgs"}
    /\ input \in DrainInputs
    /\ DogStatsDReader_new(input, 8192).out.res = "Ok"
    /\ rd = DogStatsDReader_new(input, 8192).reader
    /\ s = <<>>
    /\ hist = <<[read |-> "none", n |-> 0,
                 st |-> IF aux = "analyze_msgs" THEN NewBatchStats
                        ELSE [pc |-> "loop", out |-> <<>>]]>>

\* One turn of the loop of analyze_msgs, and the end of the call when the
\* loop is left
AnalyzeDrain ==
    /\ aux = "analyze_msgs" /\ Last(hist).st.pc = "loop" /\ Len(hist) <= MaxCalls
    /\ LET o == DogStatsDReader_read_msg(rd, <<>>) IN
       /\ rd' = [rd EXCEPT !.r = o.r]
       /\ s' = o.s
       /\ \E checks \in BOOLEAN :
             hist' = Append(hist,
                        [read |-> o.res, n |-> o.n,
                         st |-> IF o.res = "Panic" THEN [Last(hist).st EXCEPT !.pc = "panicked"]
                                ELSE analyze_turn(Last(hist).st, o, DogStatsDMsg_new(o.s, checks))])
    /\ UNCHANGED <<input, aux>>

\* One turn of the loop of print_msgs (line is empty before every read: it
\* is new or was cleared at the end of the turn before)
WriteDrain ==
    /\ aux = "print_msgs" /\ Last(hist).st.pc = "loop" /\ Len(hist) <= MaxCalls
    /\ LET o == DogStatsDReader_read_msg(rd, <<>>) IN
       /\ rd' = [rd EXCEPT !.r = o.r]
       /\ s' = <<>>
       /\ hist' = Append(hist,
                    [read |-> o.res, n |-> o.n,
                     st |-> IF o.res = "Panic" THEN [Last(hist).st EXCEPT !.pc = "panicked"]
                            ELSE print_turn(Last(hist).st, o)])
    /\ UNCHANGED <<input, aux>>

NextDrain == AnalyzeDrain \/ WriteDrain

SpecDrain == InitDrain /\ [][NextDrain]_vars

\* read_msg returned an error
ReadFailed(h) == h.read \notin {"none", "Ok", "Panic"}

\* C25: a container error is fatal and visible to the caller: when read_msg
\* returns an error, analyze_msgs does not return a DogStatsDBatchStats
\* built from the messages read before, and print_msgs does not end as it
\* does at the end of the stream.
C25_ReadErrorIsFatal ==
    \A i \in 1..Len(hist) : ReadFailed(hist[i]) => hist[i].st.pc # "returned"

---------------------------------------------------------------------------
(* SpecReplayReaders: the two readers of replay files, ReplayReader and
   DogStatsDReplayReader, each over the same file: whole, cut short, with
   and without bytes after the sentinel.  hist holds the calls made, with
   the offsets in the file before and after each call. *)

InitReplayReaders ==
    /\ aux \in ReplayFiles
    /\ input = ReplayFile(aux)
    /\ ReplayReader_new(input).ok
    /\ rd = [alive |-> TRUE, m |-> DogStatsDReplayReader_new(input), x |-> ReplayReader_new(input)]
    /\ s = <<>>
    /\ hist = <<>>

\* s.clear(); replay.read_msg(&mut s) on a DogStatsDReplayReader
ReplayLineRead ==
    /\ rd.alive /\ Len(hist) < MaxCalls
    /\ LET o == DogStatsDReplayReader_read_msg(rd.m, <<>>) IN
       /\ rd' = [rd EXCEPT !.m = o.r, !.alive = (o.res # "Panic")]
       /\ s' = o.s
       /\ hist' = Append(hist, [op |-> "read_line", res |-> o.res, n |-> o.n, line |-> o.s,
                                queued |-> Len(rd.m.current_messages),
                                pos0 |-> Len(input) - Len(rd.m.buf),
                                pos1 |-> Len(input) - Len(o.r.buf)])
    /\ UNCHANGED <<input, aux>>

\* replay.read_msg() on a ReplayReader
ReplayRecordRead ==
    /\ rd.alive /\ Len(hist) < MaxCalls
    /\ LET c == ReplayReader_read_msg(input, rd.x) IN
       /\ rd' = [rd EXCEPT !.x = c.r]
       /\ hist' = Append(hist, [op |-> "read_record", res |-> c.res, n |-> 0,
                                line |-> c.msg.payload, queued |-> 0,
                                pos0 |-> rd.x.pos, pos1 |-> c.r.pos])
    /\ UNCHANGED <<input, s, aux>>

NextReplayReaders == ReplayLineRead \/ ReplayRecordRead

SpecReplayReaders == InitReplayReaders /\ [][NextReplayReaders]_vars

\* Offset of the byte after the sentinel of the file (0: the file has none,
\* or it was cut off)
SentinelEnd ==
    LET end == 8 + Len(RecordsBytes(aux.items)) + 4 IN
    IF aux.sentinel /\ end <= Len(input) THEN end ELSE 0

\* C26: in DogStatsDReplayReader the zero-length sentinel ends the stream
\* for good: the call that reaches the sentinel returns 0, every later call
\* returns 0, and no line of the bytes after the sentinel is returned.
C26_SentinelEndsLines ==
    \A k \in 1..Len(hist) :
        (/\ hist[k].op = "read_line"
         /\ SentinelEnd # 0
         /\ hist[k].queued = 0
         /\ hist[k].pos0 >= SentinelEnd - 4)
        => (hist[k].res = "Ok" /\ hist[k].n = 0)

---------------------------------------------------------------------------
(* C27 *)

\* The file ends inside the record that starts at offset pos: inside its
\* length prefix, or before the end of the body the prefix announces
ShortAt(pos) ==
    LET remaining == Len(input) - pos IN
    \/ remaining \in 1..3
    \/ remaining >= 4 /\ LE32(SubSeq(input, pos + 1, pos + 4)) > remaining - 4

\* C27: a replay stream that ends before the sentinel, inside a length
\* prefix or inside a record, makes the next read of either replay reader
\* fail with a short-read error; it is not reported as the end of the
\* stream.
C27_ShortReadFails ==
    \A k \in 1..Len(hist) :
        (SentinelEnd = 0 /\ hist[k].queued = 0 /\ ShortAt(hist[k].pos0)) => hist[k].res = "Io"

---------------------------------------------------------------------------
(* SpecAverage: Analytics::average_bytes_per_second on the analytics of a
   stream.  aux is the Analytics: its total_bytes and the timestamps of its
   first and last packet, whole milliseconds with earliest <= latest. *)

Timestamps ==
    { [secs |-> t[1], nanos |-> t[2]] : t \in {0, 1, 2, 5} \X {0, 1000000, 500000000, 999000000} }

ByteTotals == {0, 1, 10, 1000}

InitAverage ==
    /\ \E b \in ByteTotals, e \in Timestamps, l \in Timestamps, t \in {"Udp", "UnixDatagram"} :
          /\ Duration_sub(l, e).ok
          /\ aux = [Analytics_new(t) EXCEPT !.total_bytes = b, !.earliest_timestamp = e,
                                            !.latest_timestamp = l]
    /\ input = <<>>
    /\ rd = NoReader
    /\ s = <<>>
    /\ hist = <<>>

\* analytics.duration()
Duration ==
    /\ \A i \in 1..Len(hist) : hist[i].op # "duration"
    /\ hist' = Append(hist, [op |-> "duration", res |-> "Ok", num |-> 0, den |-> 1,
                             d |-> Analytics_duration(aux)])
    /\ UNCHANGED <<input, rd, s, aux>>

\* analytics.average_bytes_per_second()
AverageBytesPerSecond ==
    /\ \A i \in 1..Len(hist) : hist[i].op # "average"
    /\ hist' = Append(hist, [op |-> "average", d |-> Analytics_duration(aux)]
                                @@ Analytics_average_bytes_per_second(aux))
    /\ UNCHANGED <<input, rd, s, aux>>

NextAverage == Duration \/ AverageBytesPerSecond

SpecAverage == InitAverage /\ [][NextAverage]_vars

\* C28: average_bytes_per_second is total_bytes divided by the duration
\* latest_timestamp - earliest_timestamp in seconds, fractions of a second
\* included; it is 0 when the duration is zero, and it never divides by
\* zero.
C28_AverageBytesPerSecond ==
    \A i \in 1..Len(hist) :
        hist[i].op = "average" =>
            LET seconds == as_secs_exact(hist[i].d) IN
            /\ hist[i].res = "Ok"
            /\ hist[i].den # 0
            /\ seconds.num = 0 => hist[i].num = 0
            /\ seconds.num # 0 =>
                  hist[i].num * seconds.num = aux.total_bytes * seconds.den * hist[i].den

---------------------------------------------------------------------------
(* SpecSticky: a DogStatsDReader over a text stream, a replay file or a
   capture, read again and again by a caller that clears the line before
   every call and does not stop at 0.  hist holds the calls made. *)

InitSticky ==
    /\ \E x \in OpenInputs :
          /\ DogStatsDReader_new(x.bytes, 8192).out.res = "Ok"
          /\ input = x.bytes
          /\ rd = DogStatsDReader_new(x.bytes, 8192).reader
    /\ aux = rd.type
    /\ s = <<>>
    /\ hist = <<>>

\* line.clear(); reader.read_msg(&mut line)
ReadMsg ==
    /\ rd.state = "open" /\ Len(hist) < MaxCalls
    /\ LET o == DogStatsDReader_read_msg(rd, <<>>) IN
       /\ rd' = [rd EXCEPT !.r = o.r, !.state = IF o.res = "Panic" THEN "failed" ELSE "open"]
       /\ s' = o.s
       /\ hist' = Append(hist, [res |-> o.res, n |-> o.n, line |-> o.s])
    /\ UNCHANGED <<input, aux>>

NextSticky == ReadMsg

SpecSticky == InitSticky /\ [][NextSticky]_vars

\* C29: once read_msg has returned 0 on a DogStatsDReader, every later call
\* on that reader returns 0 and hands back no line.
C29_EndOfStreamSticky ==
    \A i \in 1..Len(hist) : \A j \in 1..Len(hist) :
        (i < j /\ hist[i].res = "Ok" /\ hist[i].n = 0) =>
            (hist[j].res = "Ok" /\ hist[j].n = 0 /\ hist[j].line = <<>>)

---------------------------------------------------------------------------
(* SpecRate: parse_rate on the --rate argument of dsd-generate, and the
   start of the emission loop for the rate it returns.  input is the
   argument. *)

\* "", "x", "1 "
RatePrefixes == { <<>>, <<120>>, <<49, 32>> }

\* "0", "00", "1", "2", "10", "1000", "22222", "4294967295", "4294967296"
RateNumbers ==
    { <<48>>, <<48, 48>>, <<49>>, <<50>>, <<49, 48>>, <<49, 48, 48, 48>>, <<50, 50, 50, 50, 50>>,
      <<52, 50, 57, 52, 57, 54, 55, 50, 57, 53>>, <<52, 50, 57, 52, 57, 54, 55, 50, 57, 54>> }

\* "hz", "HZ", "Hz", "b", "kb", "Mb", "MB", "hzz"
RateUnits ==
    { <<104, 122>>, <<72, 90>>, <<72, 122>>, <<98>>, <<107, 98>>, <<77, 98>>, <<77, 66>>,
      <<104, 122, 122>> }

InitRate ==
    /\ \E p \in RatePrefixes, n \in RateNumbers, sp \in { <<>>, <<32>> }, u \in RateUnits :
          input = p \o n \o sp \o u
    /\ rd = NoReader
    /\ s = <<>>
    /\ aux = <<>>
    /\ hist = <<>>

\* parse_rate(&rate)
ParseRate ==
    /\ hist = <<>>
    /\ hist' = <<[op |-> "parse_rate", res |-> "Ok", sleep_in_ms |-> 0] @@ parse_rate(input)>>
    /\ UNCHANGED <<input, rd, s, aux>>

\* The arm of main's match on the parsed rate, up to its loop
Emit ==
    /\ Len(hist) = 1
    /\ hist' = Append(hist, [op |-> "emit", kind |-> hist[1].kind, hi |-> hist[1].hi,
                             lo |-> hist[1].lo] @@ emission(hist[1]))
    /\ UNCHANGED <<input, rd, s, aux>>

NextRate == ParseRate \/ Emit

SpecRate == InitRate /\ [][NextRate]_vars

\* C30: whenever parse_rate returns TimerBased(hz) or
\* ThroughputBased(bytes_per_second) the number is at least 1, so the delay
\* 1000 / hz and the throttle's non-zero capacity never fail.
C30_AcceptedRateUsable ==
    \A i \in 1..Len(hist) :
        /\ hist[i].kind \in {"TimerBased", "ThroughputBased"} => (hist[i].hi > 0 \/ hist[i].lo > 0)
        /\ hist[i].res # "Panic"

===========================================================================
